---- MODULE Spec2Model ----
(***************************************************************************)
(* The ECC sub-circuit of zkevm-circuits (src/ecc_circuit.rs): witness     *)
(* assignment for EcAdd, EcMul and EcPairing operations, the two-phase     *)
(* RLC of their byte forms, and the export of the ECC lookup table.        *)
(*                                                                         *)
(* Scaling.  TLC works on small integers, so the BN254 parameters are      *)
(* replaced by the smallest curve of the same shape:                       *)
(*   base field   Fq = GF(7)       (modulus::<Fq>())                       *)
(*   curve        y^2 = x^3 + 3    (the BN254 equation), 12 affine points, *)
(*                prime group order 13, generator (1,2), no point with     *)
(*                x = 0 or y = 0, so (0,0) is off the curve as on BN254    *)
(*   scalar field Fr = GF(13)      (modulus::<Fr>()), which is also the    *)
(*                native field F of the circuit cells, as on BN254         *)
(*   a "byte" is one radix-2 digit, a word is 5 bytes (for 32), a limb is  *)
(*   2 bits (for 88), the three limbs take 2/2/1 bytes (for 11/11/10),     *)
(*   the scalar-multiplication window is 2 bits (for 4), an EcPairing      *)
(*   operation holds at most 2 pairs (for 4).                              *)
(***************************************************************************)
EXTENDS Integers, Sequences, FiniteSets, TLC

VARIABLES
    max_add_ops, max_mul_ops, max_pairing_ops,   \* EccCircuit fields
    add_ops, mul_ops, pairing_ops,               \* EccCircuit fields
    pc,                   \* position inside EccCircuit::assign
    first_pass,           \* the SKIP_FIRST_PASS flag of the first region
    challenge,            \* challenges.keccak_input(), Unknown in phase 1
    ec_adds_decomposed, ec_muls_decomposed, ec_pairings_decomposed,
    ec_adds_assigned, ec_muls_assigned, ec_pairings_assigned,
    satisfied,            \* every constraint laid down so far holds
    table,                \* EccTable: row offset -> row of 8 columns
    exposed,              \* rows written so far by each loop of the export
    sentinel_success,     \* the bit the pairing chip computes from off-curve pairs
    onephase,             \* the build has the cargo feature "onephase"
    finalized,            \* calls of config.fp_config.finalize so far
    probe                 \* one verifier run on one operation

vars == << max_add_ops, max_mul_ops, max_pairing_ops, add_ops, mul_ops,
           pairing_ops, pc, first_pass, challenge, ec_adds_decomposed,
           ec_muls_decomposed, ec_pairings_decomposed, ec_adds_assigned,
           ec_muls_assigned, ec_pairings_assigned, satisfied, table, exposed,
           sentinel_success, onephase, finalized, probe >>

-----------------------------------------------------------------------------
(* Bounds of the model *)

\* the configured maxima range over 0..MaxOps
MaxOps == 2
\* at most MaxTotal operations are supplied over the three kinds
MaxTotal == 2
\* the three capacities add up to at most MaxRows table rows
MaxRows == 3

-----------------------------------------------------------------------------
(* Fields *)

FqModulus == 7
FrModulus == 13

Fq == 0 .. (FqModulus - 1)
Fr == 0 .. (FrModulus - 1)

FqAdd(a, b) == (a + b) % FqModulus
FqSub(a, b) == (a + FqModulus - b) % FqModulus
FqMul(a, b) == (a * b) % FqModulus
FqInv(a) == CHOOSE b \in Fq : (a * b) % FqModulus = 1

\* the quotient witness of a / b; with b = 0 the constraint quot * b = a
\* leaves the quotient free (a = 0) or cannot be met (a # 0)
FqDiv(a, b, free) == IF b = 0 THEN free ELSE FqMul(a, FqInv(b))
FqDivOk(a, b) == b # 0 \/ a = 0

FAdd(a, b) == (a + b) % FrModulus
FMul(a, b) == (a * b) % FrModulus

-----------------------------------------------------------------------------
(* G1 *)

Pt(x, y) == [x |-> x, y |-> y]

\* G1Affine::identity(): the (0,0) sentinel of the precompiles
G1Zero == Pt(0, 0)

OnCurve(P) == FqMul(P.y, P.y) = FqAdd(FqMul(P.x, FqMul(P.x, P.x)), 3)

CurvePoints == { P \in [x : Fq, y : Fq] : OnCurve(P) }

G1All == CurvePoints \cup {G1Zero}

G1Gen == Pt(1, 2)

G1Neg(P) == Pt(P.x, FqSub(0, P.y))

\* a sentinel test that is content with one zero coordinate
PointIsZeroEither(P) == (P.x = 0) \/ (P.y = 0)

\* ecc_chip.field_chip.is_zero on both coordinates, ANDed
PointIsZero(P) == (P.x = 0) /\ (P.y = 0)

\* EccChip::add_unequal: the chord through P and Q; is_strict adds the
\* constraint P.x # Q.x
AddUnequalPt(P, Q, free) ==
    LET dx == FqSub(Q.x, P.x)
        dy == FqSub(Q.y, P.y)
        lambda == FqDiv(dy, dx, free)
        x3 == FqSub(FqSub(FqMul(lambda, lambda), P.x), Q.x)
        y3 == FqSub(FqMul(lambda, FqSub(P.x, x3)), P.y)
    IN  Pt(x3, y3)

AddUnequalOk(P, Q, is_strict) ==
    /\ is_strict => P.x # Q.x
    /\ FqDivOk(FqSub(Q.y, P.y), FqSub(Q.x, P.x))

\* EccChip::sub_unequal: P - Q as the chord through P and -Q
SubUnequalPt(P, Q, free) ==
    LET dx == FqSub(Q.x, P.x)
        dy == FqSub(0, FqAdd(Q.y, P.y))
        lambda == FqDiv(dy, dx, free)
        x3 == FqSub(FqSub(FqMul(lambda, lambda), P.x), Q.x)
        y3 == FqSub(FqMul(lambda, FqSub(P.x, x3)), P.y)
    IN  Pt(x3, y3)

SubUnequalOk(P, Q, is_strict) ==
    /\ is_strict => P.x # Q.x
    /\ FqDivOk(FqSub(0, FqAdd(Q.y, P.y)), FqSub(Q.x, P.x))

\* EccChip::double: the tangent at P
DoublePt(P, free) ==
    LET lambda == FqDiv(FqMul(3, FqMul(P.x, P.x)), FqMul(2, P.y), free)
        x3 == FqSub(FqSub(FqMul(lambda, lambda), P.x), P.x)
        y3 == FqSub(FqMul(lambda, FqSub(P.x, x3)), P.y)
    IN  Pt(x3, y3)

DoubleOk(P) == FqDivOk(FqMul(3, FqMul(P.x, P.x)), FqMul(2, P.y))

\* EccChip::select(P, Q, condition) = condition ? P : Q
Select(P, Q, condition) == IF condition THEN P ELSE Q


-----------------------------------------------------------------------------
(* Byte and limb forms *)

\* N_BYTES_WORD bytes per field element (scaled), each one radix-2 digit
N_BYTES_WORD == 5
BYTE_RADIX == 2
num_limbs == 3
limb_bits == 2

\* b^e mod m, by squaring
RECURSIVE Pow(_, _, _)
Pow(b, e, m) ==
    IF e = 0 THEN 1 % m
    ELSE LET h == Pow(b, e \div 2, m)
         IN  IF e % 2 = 0 THEN (h * h) % m ELSE (((h * h) % m) * b) % m

RECURSIVE IntPow(_, _)
IntPow(b, e) == IF e = 0 THEN 1 ELSE b * IntPow(b, e - 1)

\* Fq::to_bytes(): the canonical little-endian bytes, least significant first
ToBytes(x) ==
    [i \in 1 .. N_BYTES_WORD |-> (x \div IntPow(BYTE_RADIX, i - 1)) % BYTE_RADIX]

\* the byte cells of decompose_g1 / decompose_g2: F::from(u64::from(byte))
ByteCells(x) == [i \in 1 .. N_BYTES_WORD |-> ToBytes(x)[i] % FrModulus]

Reverse(s) == [i \in 1 .. Len(s) |-> s[Len(s) + 1 - i]]

\* CRTInteger limbs: num_limbs limbs of limb_bits bits, least significant first
Limbs(v) ==
    [i \in 1 .. num_limbs |-> (v \div IntPow(2, limb_bits * (i - 1))) % IntPow(2, limb_bits)]

\* GateInstructions::inner_product: the sum of a[i] * b[i] over the zipped pairs
RECURSIVE InnerProductRange(_, _, _, _)
InnerProductRange(a, b, lo, hi) ==
    IF lo > hi THEN 0
    ELSE IF lo = hi THEN FMul(a[lo], b[lo])
    ELSE LET mid == (lo + hi) \div 2
         IN  FAdd(InnerProductRange(a, b, lo, mid), InnerProductRange(a, b, mid + 1, hi))

InnerProduct(a, b) ==
    InnerProductRange(a, b, 1, IF Len(a) < Len(b) THEN Len(a) ELSE Len(b))

-----------------------------------------------------------------------------
(* The verifiers of phase 1 *)

\* decompose_ec_add_op: rand + P + Q - R == rand, with the (0,0) bypasses
EcAddSum1(op, rand) ==
    Select(rand, AddUnequalPt(rand, op.p, 0), PointIsZero(op.p))

EcAddSum2(op, rand) ==
    LET sum1 == EcAddSum1(op, rand)
    IN  Select(sum1, AddUnequalPt(sum1, op.q, 0), PointIsZero(op.q))

\* a third step that adds R instead of subtracting it
EcAddSum3Added(op, rand) ==
    LET sum2 == EcAddSum2(op, rand)
    IN  Select(sum2, AddUnequalPt(sum2, op.r, 0), PointIsZero(op.r))

EcAddSum3(op, rand) ==
    LET sum2 == EcAddSum2(op, rand)
    IN  Select(sum2, SubUnequalPt(sum2, op.r, 0), PointIsZero(op.r))

\* the is_strict constraints of the three unequal-point gadgets, which are
\* laid down whether or not the gadget's result is selected
EcAddStrictOk(op, rand) ==
    /\ AddUnequalOk(rand, op.p, TRUE)
    /\ AddUnequalOk(EcAddSum1(op, rand), op.q, TRUE)
    /\ SubUnequalOk(EcAddSum2(op, rand), op.r, TRUE)

\* ecc_chip.assert_equal(rand_point, sum3)
EcAddEqual(op, rand) == rand = EcAddSum3(op, rand)

EcAddAccepts(op, rand) == EcAddStrictOk(op, rand) /\ EcAddEqual(op, rand)

\* the window of the scalar multiplication gadget
window_bits == 2

ScalarBits(limbs) ==
    [k \in 1 .. (Len(limbs) * limb_bits) |->
        (limbs[((k - 1) \div limb_bits) + 1] \div IntPow(2, (k - 1) % limb_bits)) % 2]

\* EccChip::scalar_mult: windowed double-and-add over the bits of the limbs.
\* cached_points[i] holds i * P, with cached_points[0] = P; a window is taken
\* from the top; before the first non-zero window the running point is the
\* window's cached point, afterwards it is 2^w * running + cached.
CachedPoints(P, free) ==
    LET c2 == DoublePt(P, free)
        c3 == AddUnequalPt(c2, P, free)
    IN  << P, P, c2, c3 >>

WindowValue(bits, w) ==
    \* window w counted from the top, w in 0 .. num_windows - 1
    LET hi == Len(bits) - window_bits * w
    IN  bits[hi - 1] + 2 * bits[hi]

RECURSIVE IsStarted(_, _)
IsStarted(bits, w) ==
    \* a one among the bits above window w
    IF w = 0 THEN FALSE
    ELSE IsStarted(bits, w - 1) \/ WindowValue(bits, w - 1) # 0

RECURSIVE ScalarMultFrom(_, _, _, _, _)
ScalarMultFrom(cached, bits, w, curr, free) ==
    IF w * window_bits >= Len(bits) THEN curr
    ELSE LET mult_point == DoublePt(DoublePt(curr, free), free)
             add_point == cached[WindowValue(bits, w) + 1]
             mult_and_add == AddUnequalPt(mult_point, add_point, free)
             is_started_point ==
                 Select(mult_point, mult_and_add, WindowValue(bits, w) = 0)
             next == Select(is_started_point, add_point, IsStarted(bits, w))
         IN  ScalarMultFrom(cached, bits, w + 1, next, free)

ScalarMult(P, limbs, free) ==
    LET bits == ScalarBits(limbs)
        cached == CachedPoints(P, free)
    IN  ScalarMultFrom(cached, bits, 1, cached[WindowValue(bits, 0) + 1], free)

\* decompose_ec_mul_op: assert_equal(point_r, scalar_mult(point_p, limbs(s)))
EcMulGot(op, free) == ScalarMult(op.p, Limbs(op.s), free)

\* an EcMul check that lets a sentinel result through
EcMulAcceptsWithBypass(op, free) ==
    PointIsZero(op.r) \/ op.r = EcMulGot(op, free)

EcMulAccepts(op, free) == op.r = EcMulGot(op, free)

-----------------------------------------------------------------------------
(* The group G1 by discrete logarithm: G1Multiples[k] = k * (1,2) *)

G1Multiples ==
    << Pt(1, 2), Pt(6, 3), Pt(2, 2), Pt(4, 5), Pt(3, 3), Pt(5, 3),
       Pt(5, 4), Pt(3, 4), Pt(4, 2), Pt(2, 5), Pt(6, 4), Pt(1, 5) >>

\* k * G, with the sentinel for the identity
G1Mul(k) == IF k % FrModulus = 0 THEN G1Zero ELSE G1Multiples[k % FrModulus]

G1Dlog(P) ==
    IF P = G1Zero THEN 0 ELSE CHOOSE k \in 1 .. (FrModulus - 1) : G1Multiples[k] = P

\* the group law of the precompiles, (0,0) standing for the identity
GroupAdd(P, Q) == G1Mul(G1Dlog(P) + G1Dlog(Q))

GroupScalarMul(s, P) == G1Mul(s * G1Dlog(P))

-----------------------------------------------------------------------------
(* G2 and the pairing check *)

G2Pt(x_c0, x_c1, y_c0, y_c1) ==
    [x_c0 |-> x_c0, x_c1 |-> x_c1, y_c0 |-> y_c0, y_c1 |-> y_c1]

G2Zero == G2Pt(0, 0, 0, 0)

\* G2Multiples[k] = k * H, H of order 13 on the twist y^2 = x^3 + (2 + 3u)
\* over Fq2 = Fq[u]/(u^2 + 1)
G2Multiples ==
    << G2Pt(5, 4, 6, 3), G2Pt(2, 1, 2, 0), G2Pt(6, 2, 6, 3), G2Pt(3, 1, 1, 4),
       G2Pt(4, 2, 2, 0), G2Pt(1, 4, 2, 0), G2Pt(1, 4, 5, 0), G2Pt(4, 2, 5, 0),
       G2Pt(3, 1, 6, 3), G2Pt(6, 2, 1, 4), G2Pt(2, 1, 5, 0), G2Pt(5, 4, 1, 4) >>

G2Points == { G2Multiples[k] : k \in 1 .. (FrModulus - 1) }

G2Mul(k) == IF k % FrModulus = 0 THEN G2Zero ELSE G2Multiples[k % FrModulus]

G2Dlog(Q) == CHOOSE k \in 1 .. (FrModulus - 1) : G2Multiples[k] = Q

RECURSIVE PairingExponent(_, _)
PairingExponent(pairs, i) ==
    IF i > Len(pairs) THEN 0
    ELSE (G1Dlog(pairs[i].g1_point) * G2Dlog(pairs[i].g2_point)
            + PairingExponent(pairs, i + 1)) % FrModulus

\* multi_miller_loop, final_exp and fp12_chip.is_equal(gt, one): by
\* bilinearity the product of e(a_i G, b_i H) is e(G,H)^(sum a_i b_i), which
\* is one exactly when the exponent vanishes mod the group order.  A pair
\* holding the (0,0) sentinel is no pair of curve points: what the engine
\* computes from it is not determined by the circuit, and free stands for
\* the bit it yields.  The engine is a pure function, so the bit is the same
\* every time: it is fixed with the initial state (sentinel_success); the
\* padding operation is the only such operation the pipeline meets.
PairsOnCurve(pairs) ==
    \A i \in 1 .. Len(pairs) :
        pairs[i].g1_point \in CurvePoints /\ pairs[i].g2_point \in G2Points

\* a success bit that wants every pair to be trivial by itself instead of
\* taking one product over all pairs
PairingSuccessPairwise(pairs, free) ==
    IF PairsOnCurve(pairs)
    THEN (IF \A i \in 1 .. Len(pairs) :
                (G1Dlog(pairs[i].g1_point) * G2Dlog(pairs[i].g2_point)) % FrModulus = 0
          THEN 1 ELSE 0)
    ELSE free

PairingSuccess(pairs, free) ==
    IF PairsOnCurve(pairs)
    THEN (IF PairingExponent(pairs, 1) = 0 THEN 1 ELSE 0)
    ELSE free

-----------------------------------------------------------------------------
(* The operations supplied to the circuit *)

N_PAIRING_PER_OP == 2
N_BYTES_PER_PAIR == 6 * N_BYTES_WORD

Pair(g1, g2) == [g1_point |-> g1, g2_point |-> g2]

\* skip is the value of op.skip_by_ecc_circuit()
EcAddOp(p, q, r, skip) == [p |-> p, q |-> q, r |-> r, skip |-> skip]
EcMulOp(p, s, r, skip) == [p |-> p, s |-> s, r |-> r, skip |-> skip]
EcPairingOp(pairs, output, skip) == [pairs |-> pairs, output |-> output, skip |-> skip]

AddOpSet ==
    { EcAddOp(G1Mul(1), G1Mul(2), G1Mul(3), FALSE),
      EcAddOp(G1Zero, G1Mul(4), G1Mul(4), FALSE),
      EcAddOp(G1Mul(5), G1Mul(5), G1Mul(10), TRUE) }

MulOpSet ==
    { EcMulOp(G1Mul(1), 2, G1Mul(2), FALSE),
      EcMulOp(G1Mul(3), 5, G1Mul(2), FALSE),
      EcMulOp(G1Mul(6), 0, G1Zero, TRUE) }

PairingOpSet ==
    { EcPairingOp(<< Pair(G1Mul(1), G2Mul(1)), Pair(G1Mul(12), G2Mul(1)) >>, TRUE, FALSE),
      EcPairingOp(<< Pair(G1Mul(2), G2Mul(3)), Pair(G1Mul(1), G2Mul(1)) >>, FALSE, FALSE) }

\* $op_type::default(): the padding operation, with all-zero operands
EcAddOpDefault == EcAddOp(G1Zero, G1Zero, G1Zero, FALSE)
EcMulOpDefault == EcMulOp(G1Zero, 0, G1Zero, FALSE)
EcPairingOpDefault ==
    EcPairingOp([i \in 1 .. N_PAIRING_PER_OP |-> Pair(G1Zero, G2Zero)], FALSE, FALSE)

\* ops.iter().filter(|op| !op.skip_by_ecc_circuit())
RECURSIVE FilterSkipped(_)
FilterSkipped(ops) ==
    IF ops = << >> THEN << >>
    ELSE IF Head(ops).skip THEN FilterSkipped(Tail(ops))
         ELSE << Head(ops) >> \o FilterSkipped(Tail(ops))

\* a padding that repeats the last kept operation instead of the default
PaddedOpRepeatLast(ops, default, i) ==
    LET kept == FilterSkipped(ops)
    IN  IF i <= Len(kept) THEN kept[i]
        ELSE IF kept # << >> THEN kept[Len(kept)] ELSE default

\* a chain that yields the kept operations last to first
PaddedOpReversed(ops, default, i) ==
    LET kept == FilterSkipped(ops)
    IN  IF i <= Len(kept) THEN kept[Len(kept) + 1 - i] ELSE default

\* a chain without the filter: skipped operations keep their slot
PaddedOpUnfiltered(ops, default, i) ==
    IF i <= Len(ops) THEN ops[i] ELSE default

\* decompose_ec_op!: element i (from 1) of
\* filter(..).chain(repeat(default)).take(n_ops)
PaddedOp(ops, default, i) ==
    LET kept == FilterSkipped(ops)
    IN  IF i <= Len(kept) THEN kept[i] ELSE default

-----------------------------------------------------------------------------
(* Phase 1: decomposition into field elements and byte cells *)

\* bytes per limb: bytes[0..11), [11..22), [22..32) at full scale
LIMB_BYTES == 2

\* powers_of_256: successive powers of the byte radix, as native field values
PowersOf256 == [i \in 1 .. N_BYTES_WORD |-> Pow(BYTE_RADIX, i - 1, FrModulus)]

\* limb byte slices whose first limb takes one byte less
LimbCellsShort(cells, k) ==
    SubSeq(cells, IF k = 1 THEN 1 ELSE LIMB_BYTES * (k - 1),
           IF k = num_limbs THEN Len(cells) ELSE LIMB_BYTES * k - 1)

LimbCells(cells, k) ==
    SubSeq(cells, LIMB_BYTES * (k - 1) + 1,
           IF k = num_limbs THEN Len(cells) ELSE LIMB_BYTES * k)

\* assert_crt_repr: each limb recovered from its bytes equals the CRT limb
AssertCrtRepr(v, cells) ==
    \A k \in 1 .. num_limbs :
        InnerProduct(LimbCells(cells, k), SubSeq(PowersOf256, 1, LIMB_BYTES))
            = Limbs(v)[k] % FrModulus

\* decompose_g1 together with assign_g1's load_private
G1Decomposed(P) ==
    [ec_point |-> P, x_cells |-> ByteCells(P.x), y_cells |-> ByteCells(P.y)]

G1CrtOk(d) ==
    AssertCrtRepr(d.ec_point.x, d.x_cells) /\ AssertCrtRepr(d.ec_point.y, d.y_cells)

\* decompose_g2
G2Decomposed(Q) ==
    [ec_point |-> Q,
     x_c0_cells |-> ByteCells(Q.x_c0), x_c1_cells |-> ByteCells(Q.x_c1),
     y_c0_cells |-> ByteCells(Q.y_c0), y_c1_cells |-> ByteCells(Q.y_c1)]

G2CrtOk(d) ==
    /\ AssertCrtRepr(d.ec_point.x_c0, d.x_c0_cells)
    /\ AssertCrtRepr(d.ec_point.x_c1, d.x_c1_cells)
    /\ AssertCrtRepr(d.ec_point.y_c0, d.y_c0_cells)
    /\ AssertCrtRepr(d.ec_point.y_c1, d.y_c1_cells)

\* assign_fr: the scalar as a CRT integer of the scalar field
ScalarAssigned(s) == [native |-> s % FrModulus, limbs |-> Limbs(s)]

EcAddDecomposed(op) ==
    [point_p |-> G1Decomposed(op.p),
     point_q |-> G1Decomposed(op.q),
     point_r |-> G1Decomposed(op.r)]

\* the assert_crt_repr constraints of the three assign_g1 calls, on the
\* cells the decomposition holds
EcAddCrtHolds(d) ==
    /\ G1CrtOk(d.point_p)
    /\ G1CrtOk(d.point_q)
    /\ G1CrtOk(d.point_r)

EcAddCrtOk(op) == EcAddCrtHolds(EcAddDecomposed(op))

EcMulDecomposed(op) ==
    [point_p |-> G1Decomposed(op.p),
     scalar_s |-> ScalarAssigned(op.s),
     point_r |-> G1Decomposed(op.r)]

\* constraints that leave the bytes of R unbound
EcMulCrtHoldsPOnly(d) == G1CrtOk(d.point_p)

\* the assert_crt_repr constraints of the two assign_g1 calls, on the cells
\* the decomposition holds; assign_fr lays none
EcMulCrtHolds(d) ==
    /\ G1CrtOk(d.point_p)
    /\ G1CrtOk(d.point_r)

EcMulCrtOk(op) == EcMulCrtHolds(EcMulDecomposed(op))

\* a stream that puts the c0 coefficient of each G2 coordinate before c1
PairInputCellsC0First(g1, g2) ==
    Reverse(g1.x_cells) \o Reverse(g1.y_cells)
        \o Reverse(g2.x_c0_cells) \o Reverse(g2.x_c1_cells)
        \o Reverse(g2.y_c0_cells) \o Reverse(g2.y_c1_cells)

\* the input byte stream of one pair: every operand reversed to big-endian,
\* G2 coefficients c1 before c0
PairInputCells(g1, g2) ==
    Reverse(g1.x_cells) \o Reverse(g1.y_cells)
        \o Reverse(g2.x_c1_cells) \o Reverse(g2.x_c0_cells)
        \o Reverse(g2.y_c1_cells) \o Reverse(g2.y_c0_cells)

RECURSIVE PairingInputCells(_, _)
PairingInputCells(pairs, i) ==
    IF i > Len(pairs) THEN << >>
    ELSE PairInputCells(G1Decomposed(pairs[i].g1_point), G2Decomposed(pairs[i].g2_point))
            \o PairingInputCells(pairs, i + 1)

EcPairingDecomposed(op, free) ==
    [input_cells |-> PairingInputCells(op.pairs, 1),
     success |-> PairingSuccess(op.pairs, free)]

\* op.output.to_scalar()
OutputScalar(output) == IF output THEN 1 ELSE 0

\* the assert_crt_repr constraints of one pair: two on the G1 point, four on
\* the G2 point
PairCrtHolds(g1, g2) == G1CrtOk(g1) /\ G2CrtOk(g2)

\* the assert_crt_repr constraints of the pairs
EcPairingCrtOk(op) ==
    \A i \in 1 .. Len(op.pairs) :
        PairCrtHolds(G1Decomposed(op.pairs[i].g1_point),
                     G2Decomposed(op.pairs[i].g2_point))

\* assert_equal(success, op_output)
EcPairingAccepts(op, free) ==
    PairingSuccess(op.pairs, free) = OutputScalar(op.output)

-----------------------------------------------------------------------------
(* Phase 2: RLC with the powers of the challenge *)

\* challenge powers for the bytes of one pair only
KeccakPowersOnePair(c) ==
    [i \in 1 .. N_BYTES_PER_PAIR |-> Pow(c, i - 1, FrModulus)]

\* keccak_powers: 1, c, c^2, ... (N_PAIRING_PER_OP * N_BYTES_PER_PAIR of them)
KeccakPowers(c) ==
    [i \in 1 .. (N_PAIRING_PER_OP * N_BYTES_PER_PAIR) |-> Pow(c, i - 1, FrModulus)]

\* coordinate RLCs that weight the most significant byte with challenge^0
G1AssignedBigEndian(d, keccak_powers) ==
    [x_rlc |-> InnerProduct(Reverse(d.x_cells), keccak_powers),
     y_rlc |-> InnerProduct(Reverse(d.y_cells), keccak_powers)]

G1Assigned(d, keccak_powers) ==
    [x_rlc |-> InnerProduct(d.x_cells, keccak_powers),
     y_rlc |-> InnerProduct(d.y_cells, keccak_powers)]

\* assign_ec_add
EcAddAssigned(d, keccak_powers) ==
    [point_p |-> G1Assigned(d.point_p, keccak_powers),
     point_q |-> G1Assigned(d.point_q, keccak_powers),
     point_r |-> G1Assigned(d.point_r, keccak_powers)]

\* an assign_ec_mul that sends the scalar's bytes through the RLC as well
EcMulAssignedScalarRlc(d, keccak_powers) ==
    [point_p |-> G1Assigned(d.point_p, keccak_powers),
     scalar_s |-> [native |-> InnerProduct(ByteCells(d.scalar_s.native), keccak_powers),
                   limbs |-> d.scalar_s.limbs],
     point_r |-> G1Assigned(d.point_r, keccak_powers)]

\* assign_ec_mul
EcMulAssigned(d, keccak_powers) ==
    [point_p |-> G1Assigned(d.point_p, keccak_powers),
     scalar_s |-> d.scalar_s,
     point_r |-> G1Assigned(d.point_r, keccak_powers)]

\* an assign_ec_pairing that leaves out the final reversal of the stream
EcPairingAssignedUnreversed(d, keccak_powers) ==
    [input_rlc |-> InnerProduct(d.input_cells, keccak_powers),
     success |-> d.success]

\* assign_ec_pairing
EcPairingAssigned(d, keccak_powers) ==
    [input_rlc |-> InnerProduct(Reverse(d.input_cells), keccak_powers),
     success |-> d.success]

-----------------------------------------------------------------------------
(* The rows of the ECC table *)

\* PrecompileCalls::Bn128Add, Bn128Mul, Bn128Pairing as u64
Bn128Add == 6
Bn128Mul == 7
Bn128Pairing == 8

Row(op_type, a1, a2, a3, a4, o1, o2, irlc) ==
    [op_type |-> op_type, arg1_rlc |-> a1, arg2_rlc |-> a2, arg3_rlc |-> a3,
     arg4_rlc |-> a4, output1_rlc |-> o1, output2_rlc |-> o2, input_rlc |-> irlc]

\* an EcAdd row with the y of P and the x of Q exchanged
EcAddRowSwapped(a) ==
    Row(Bn128Add, a.point_p.x_rlc, a.point_q.x_rlc, a.point_p.y_rlc,
        a.point_q.y_rlc, a.point_r.x_rlc, a.point_r.y_rlc, 0)

EcAddRow(a) ==
    Row(Bn128Add, a.point_p.x_rlc, a.point_p.y_rlc, a.point_q.x_rlc,
        a.point_q.y_rlc, a.point_r.x_rlc, a.point_r.y_rlc, 0)

EcMulRow(a) ==
    Row(Bn128Mul, a.point_p.x_rlc, a.point_p.y_rlc, a.scalar_s.native, 0,
        a.point_r.x_rlc, a.point_r.y_rlc, 0)

EcPairingRow(a) ==
    Row(Bn128Pairing, 0, 0, 0, 0, a.success, 0, a.input_rlc)

\* an EcMul offset that forgets the EcAdd block
EcMulRowOffsetNoBase(idx) == idx

\* an EcPairing offset that forgets the EcMul block
EcPairingRowOffsetNoMul(idx) == idx + max_add_ops

\* the offsets of the three loops of "expose ecc table"
EcAddRowOffset(idx) == idx
EcMulRowOffset(idx) == idx + max_add_ops
EcPairingRowOffset(idx) == idx + max_add_ops + max_mul_ops

\* region.assign_* at (column, offset) for the 8 columns of one row
AssignRow(t, offset, row) == (offset :> row) @@ t

-----------------------------------------------------------------------------
(* Idle values of the pipeline and of the probe *)

Unknown == 0 - 1

NoProbe == [kind |-> "none"]

PipelineIdle ==
    /\ max_add_ops = 0 /\ max_mul_ops = 0 /\ max_pairing_ops = 0
    /\ add_ops = << >> /\ mul_ops = << >> /\ pairing_ops = << >>
    /\ pc = "idle"
    /\ first_pass = TRUE
    /\ challenge = Unknown
    /\ ec_adds_decomposed = << >>
    /\ ec_muls_decomposed = << >>
    /\ ec_pairings_decomposed = << >>
    /\ ec_adds_assigned = << >>
    /\ ec_muls_assigned = << >>
    /\ ec_pairings_assigned = << >>
    /\ satisfied = TRUE
    /\ table = << >>
    /\ exposed = [add |-> 0, mul |-> 0, pairing |-> 0]
    /\ onephase = FALSE
    /\ finalized = 0

pipeline_vars ==
    << max_add_ops, max_mul_ops, max_pairing_ops, add_ops, mul_ops,
       pairing_ops, pc, first_pass, challenge, ec_adds_decomposed,
       ec_muls_decomposed, ec_pairings_decomposed, ec_adds_assigned,
       ec_muls_assigned, ec_pairings_assigned, satisfied, table, exposed,
       sentinel_success, onephase, finalized >>

-----------------------------------------------------------------------------
(* EccCircuit::assign *)

\* the values the keccak_input challenge may take once phase 2 begins
Challenges == {2, 6}

SeqsUpTo(S, n) == UNION { [1 .. k -> S] : k \in 0 .. n }

Init ==
    /\ \E ma \in 0 .. MaxOps, mm \in 0 .. MaxOps, mp \in 0 .. MaxOps,
          ao \in SeqsUpTo(AddOpSet, MaxTotal),
          mo \in SeqsUpTo(MulOpSet, MaxTotal),
          po \in SeqsUpTo(PairingOpSet, MaxTotal) :
          /\ ma + mm + mp <= MaxRows
          /\ Len(ao) + Len(mo) + Len(po) <= MaxTotal
          /\ max_add_ops = ma /\ max_mul_ops = mm /\ max_pairing_ops = mp
          /\ add_ops = ao /\ mul_ops = mo /\ pairing_ops = po
          \* the bit is left open only where a padding EcPairing operation
          \* will be decomposed; no other run ever reads it
          /\ sentinel_success \in
                (IF /\ Len(ao) <= ma /\ Len(mo) <= mm /\ Len(po) <= mp
                    /\ Len(FilterSkipped(po)) < mp
                 THEN {0, 1} ELSE {0})
          \* the feature changes nothing but the step between the phases:
          \* builds that have it are run on the circuits without EcPairing rows
          /\ onephase \in (IF mp = 0 THEN BOOLEAN ELSE {FALSE})
    /\ pc = "start"
    /\ first_pass = TRUE
    /\ challenge = Unknown
    /\ ec_adds_decomposed = << >>
    /\ ec_muls_decomposed = << >>
    /\ ec_pairings_decomposed = << >>
    /\ ec_adds_assigned = << >>
    /\ ec_muls_assigned = << >>
    /\ ec_pairings_assigned = << >>
    /\ satisfied = TRUE
    /\ table = << >>
    /\ exposed = [add |-> 0, mul |-> 0, pairing |-> 0]
    /\ finalized = 0
    /\ probe = NoProbe

inputs == << max_add_ops, max_mul_ops, max_pairing_ops, add_ops, mul_ops, pairing_ops >>

\* a capacity check that also refuses a count equal to its maximum
OverCapacityAtLimit ==
    \/ Len(add_ops) >= max_add_ops
    \/ Len(mul_ops) >= max_mul_ops
    \/ Len(pairing_ops) >= max_pairing_ops

\* the capacity check at the head of assign
OverCapacity ==
    \/ Len(add_ops) > max_add_ops
    \/ Len(mul_ops) > max_mul_ops
    \/ Len(pairing_ops) > max_pairing_ops

\* return Err(Error::Synthesis)
CapacityExceeded ==
    /\ pc = "start"
    /\ OverCapacity
    /\ pc' = "err"
    /\ UNCHANGED << inputs, sentinel_success, onephase, finalized, first_pass, challenge, ec_adds_decomposed,
                    ec_muls_decomposed, ec_pairings_decomposed, ec_adds_assigned,
                    ec_muls_assigned, ec_pairings_assigned, satisfied, table,
                    exposed, probe >>

\* the check passes; the chips are built and the first region is entered
AssignBegin ==
    /\ pc = "start"
    /\ ~OverCapacity
    /\ pc' = "ecc_region"
    /\ UNCHANGED << inputs, sentinel_success, onephase, finalized, first_pass, challenge, ec_adds_decomposed,
                    ec_muls_decomposed, ec_pairings_decomposed, ec_adds_assigned,
                    ec_muls_assigned, ec_pairings_assigned, satisfied, table,
                    exposed, probe >>

\* the shape pass of the region: first_pass is cleared, nothing is assigned
FirstPass ==
    /\ pc = "ecc_region"
    /\ first_pass
    /\ first_pass' = FALSE
    /\ UNCHANGED << inputs, sentinel_success, onephase, finalized, pc, challenge, ec_adds_decomposed,
                    ec_muls_decomposed, ec_pairings_decomposed, ec_adds_assigned,
                    ec_muls_assigned, ec_pairings_assigned, satisfied, table,
                    exposed, probe >>

\* a decomposition step that lets the mask point reach the bytes of R
DecomposeEcAddKeepingRand ==
    /\ pc = "ecc_region" /\ ~first_pass
    /\ Len(ec_adds_decomposed) < max_add_ops
    /\ LET op == PaddedOp(add_ops, EcAddOpDefault, Len(ec_adds_decomposed) + 1)
           crt_ok == EcAddCrtOk(op)
       IN  \E rand \in CurvePoints :
              /\ ec_adds_decomposed' =
                    Append(ec_adds_decomposed,
                           [EcAddDecomposed(op) EXCEPT
                               !.point_r = G1Decomposed(IF rand.y = 2 THEN rand
                                                        ELSE op.r)])
              /\ satisfied' = (satisfied /\ crt_ok /\ EcAddAccepts(op, rand))
    /\ UNCHANGED << inputs, sentinel_success, onephase, finalized, pc, first_pass, challenge,
                    ec_muls_decomposed, ec_pairings_decomposed, ec_adds_assigned,
                    ec_muls_assigned, ec_pairings_assigned, table, exposed, probe >>

\* one step of decompose_ec_op!(EcAddOp, self.add_ops, self.max_add_ops, ..)
DecomposeEcAdd ==
    /\ pc = "ecc_region" /\ ~first_pass
    /\ Len(ec_adds_decomposed) < max_add_ops
    /\ LET op == PaddedOp(add_ops, EcAddOpDefault, Len(ec_adds_decomposed) + 1)
           crt_ok == EcAddCrtOk(op)
       IN  /\ ec_adds_decomposed' = Append(ec_adds_decomposed, EcAddDecomposed(op))
           /\ \E rand \in CurvePoints :
                 satisfied' = (satisfied /\ crt_ok /\ EcAddAccepts(op, rand))
    /\ UNCHANGED << inputs, sentinel_success, onephase, finalized, pc, first_pass, challenge,
                    ec_muls_decomposed, ec_pairings_decomposed, ec_adds_assigned,
                    ec_muls_assigned, ec_pairings_assigned, table, exposed, probe >>

\* one step of decompose_ec_op!(EcMulOp, self.mul_ops, self.max_mul_ops, ..)
DecomposeEcMul ==
    /\ pc = "ecc_region" /\ ~first_pass
    /\ Len(ec_adds_decomposed) = max_add_ops
    /\ Len(ec_muls_decomposed) < max_mul_ops
    /\ LET op == PaddedOp(mul_ops, EcMulOpDefault, Len(ec_muls_decomposed) + 1)
           crt_ok == EcMulCrtOk(op)
       IN  /\ ec_muls_decomposed' = Append(ec_muls_decomposed, EcMulDecomposed(op))
           /\ \E free \in Fq :
                 satisfied' = (satisfied /\ crt_ok /\ EcMulAccepts(op, free))
    /\ UNCHANGED << inputs, sentinel_success, onephase, finalized, pc, first_pass, challenge,
                    ec_adds_decomposed, ec_pairings_decomposed, ec_adds_assigned,
                    ec_muls_assigned, ec_pairings_assigned, table, exposed, probe >>

\* one step of decompose_ec_op!(EcPairingOp, self.pairing_ops, ..)
DecomposeEcPairing ==
    /\ pc = "ecc_region" /\ ~first_pass
    /\ Len(ec_adds_decomposed) = max_add_ops
    /\ Len(ec_muls_decomposed) = max_mul_ops
    /\ Len(ec_pairings_decomposed) < max_pairing_ops
    /\ LET op == PaddedOp(pairing_ops, EcPairingOpDefault, Len(ec_pairings_decomposed) + 1)
           crt_ok == EcPairingCrtOk(op)
           free == sentinel_success
       IN  /\ ec_pairings_decomposed' =
                 Append(ec_pairings_decomposed, EcPairingDecomposed(op, free))
           /\ satisfied' = (satisfied /\ crt_ok /\ EcPairingAccepts(op, free))
    /\ UNCHANGED << inputs, sentinel_success, onephase, finalized, pc, first_pass, challenge,
                    ec_adds_decomposed, ec_muls_decomposed, ec_adds_assigned,
                    ec_muls_assigned, ec_pairings_assigned, table, exposed, probe >>

\* a phase change that does not wait for the EcPairing decompositions
NextPhaseBeforePairings ==
    /\ pc = "ecc_region" /\ ~first_pass
    /\ ~onephase
    /\ Len(ec_adds_decomposed) = max_add_ops
    /\ Len(ec_muls_decomposed) = max_mul_ops
    /\ pc' = "phase2"
    /\ finalized' = finalized + 1
    /\ challenge' \in Challenges
    /\ UNCHANGED << inputs, sentinel_success, onephase, first_pass,
                    ec_adds_decomposed,
                    ec_muls_decomposed, ec_pairings_decomposed, ec_adds_assigned,
                    ec_muls_assigned, ec_pairings_assigned, satisfied, table,
                    exposed, probe >>

\* builds without "onephase": config.fp_config.finalize(ctx); ctx.next_phase().
\* The challenge is known from here on.
NextPhase ==
    /\ pc = "ecc_region" /\ ~first_pass
    /\ ~onephase
    /\ Len(ec_adds_decomposed) = max_add_ops
    /\ Len(ec_muls_decomposed) = max_mul_ops
    /\ Len(ec_pairings_decomposed) = max_pairing_ops
    /\ pc' = "phase2"
    /\ finalized' = finalized + 1
    /\ challenge' \in Challenges
    /\ UNCHANGED << inputs, sentinel_success, onephase, first_pass,
                    ec_adds_decomposed,
                    ec_muls_decomposed, ec_pairings_decomposed, ec_adds_assigned,
                    ec_muls_assigned, ec_pairings_assigned, satisfied, table,
                    exposed, probe >>

\* builds with "onephase": the block of lines 266-271 is compiled out, the
\* assignments follow the decompositions in the same phase, and
\* keccak_powers holds the value the challenge has in that phase
SamePhase ==
    /\ pc = "ecc_region" /\ ~first_pass
    /\ onephase
    /\ Len(ec_adds_decomposed) = max_add_ops
    /\ Len(ec_muls_decomposed) = max_mul_ops
    /\ Len(ec_pairings_decomposed) = max_pairing_ops
    /\ pc' = "phase2"
    /\ challenge' \in Challenges
    /\ UNCHANGED << inputs, sentinel_success, onephase, finalized, first_pass,
                    ec_adds_decomposed,
                    ec_muls_decomposed, ec_pairings_decomposed, ec_adds_assigned,
                    ec_muls_assigned, ec_pairings_assigned, satisfied, table,
                    exposed, probe >>

\* one step of assign_ec_op!(ec_adds_decomposed, assign_ec_add)
AssignEcAdd ==
    /\ pc = "phase2"
    /\ Len(ec_adds_assigned) < Len(ec_adds_decomposed)
    /\ ec_adds_assigned' =
          Append(ec_adds_assigned,
                 EcAddAssigned(ec_adds_decomposed[Len(ec_adds_assigned) + 1],
                               KeccakPowers(challenge)))
    /\ UNCHANGED << inputs, sentinel_success, onephase, finalized, pc, first_pass, challenge, ec_adds_decomposed,
                    ec_muls_decomposed, ec_pairings_decomposed,
                    ec_muls_assigned, ec_pairings_assigned, satisfied, table,
                    exposed, probe >>

\* one step of assign_ec_op!(ec_muls_decomposed, assign_ec_mul)
AssignEcMul ==
    /\ pc = "phase2"
    /\ Len(ec_adds_assigned) = Len(ec_adds_decomposed)
    /\ Len(ec_muls_assigned) < Len(ec_muls_decomposed)
    /\ ec_muls_assigned' =
          Append(ec_muls_assigned,
                 EcMulAssigned(ec_muls_decomposed[Len(ec_muls_assigned) + 1],
                               KeccakPowers(challenge)))
    /\ UNCHANGED << inputs, sentinel_success, onephase, finalized, pc, first_pass, challenge, ec_adds_decomposed,
                    ec_muls_decomposed, ec_pairings_decomposed,
                    ec_adds_assigned, ec_pairings_assigned, satisfied, table,
                    exposed, probe >>

\* one step of assign_ec_op!(ec_pairings_decomposed, assign_ec_pairing)
AssignEcPairing ==
    /\ pc = "phase2"
    /\ Len(ec_adds_assigned) = Len(ec_adds_decomposed)
    /\ Len(ec_muls_assigned) = Len(ec_muls_decomposed)
    /\ Len(ec_pairings_assigned) < Len(ec_pairings_decomposed)
    /\ ec_pairings_assigned' =
          Append(ec_pairings_assigned,
                 EcPairingAssigned(ec_pairings_decomposed[Len(ec_pairings_assigned) + 1],
                                   KeccakPowers(challenge)))
    /\ UNCHANGED << inputs, sentinel_success, onephase, finalized, pc, first_pass, challenge, ec_adds_decomposed,
                    ec_muls_decomposed, ec_pairings_decomposed,
                    ec_adds_assigned, ec_muls_assigned, satisfied, table,
                    exposed, probe >>

\* the final finalize of the region; Ok(EcOpsAssigned { .. })
FinalizeRegion ==
    /\ pc = "phase2"
    /\ Len(ec_adds_assigned) = Len(ec_adds_decomposed)
    /\ Len(ec_muls_assigned) = Len(ec_muls_decomposed)
    /\ Len(ec_pairings_assigned) = Len(ec_pairings_decomposed)
    /\ pc' = "expose"
    /\ finalized' = finalized + 1
    /\ UNCHANGED << inputs, sentinel_success, onephase, first_pass, challenge, ec_adds_decomposed,
                    ec_muls_decomposed, ec_pairings_decomposed, ec_adds_assigned,
                    ec_muls_assigned, ec_pairings_assigned, satisfied, table,
                    exposed, probe >>

\* one iteration of "handle EcAdd ops"
ExposeEcAdd ==
    /\ pc = "expose"
    /\ exposed.add < Len(ec_adds_assigned)
    /\ table' = AssignRow(table, EcAddRowOffset(exposed.add),
                          EcAddRow(ec_adds_assigned[exposed.add + 1]))
    /\ exposed' = [exposed EXCEPT !.add = @ + 1]
    /\ UNCHANGED << inputs, sentinel_success, onephase, finalized, pc, first_pass, challenge, ec_adds_decomposed,
                    ec_muls_decomposed, ec_pairings_decomposed, ec_adds_assigned,
                    ec_muls_assigned, ec_pairings_assigned, satisfied, probe >>

\* one iteration of "handle EcMul ops"
ExposeEcMul ==
    /\ pc = "expose"
    /\ exposed.add = Len(ec_adds_assigned)
    /\ exposed.mul < Len(ec_muls_assigned)
    /\ table' = AssignRow(table, EcMulRowOffset(exposed.mul),
                          EcMulRow(ec_muls_assigned[exposed.mul + 1]))
    /\ exposed' = [exposed EXCEPT !.mul = @ + 1]
    /\ UNCHANGED << inputs, sentinel_success, onephase, finalized, pc, first_pass, challenge, ec_adds_decomposed,
                    ec_muls_decomposed, ec_pairings_decomposed, ec_adds_assigned,
                    ec_muls_assigned, ec_pairings_assigned, satisfied, probe >>

\* one iteration of "handle EcPairing ops"
ExposeEcPairing ==
    /\ pc = "expose"
    /\ exposed.add = Len(ec_adds_assigned)
    /\ exposed.mul = Len(ec_muls_assigned)
    /\ exposed.pairing < Len(ec_pairings_assigned)
    /\ table' = AssignRow(table, EcPairingRowOffset(exposed.pairing),
                          EcPairingRow(ec_pairings_assigned[exposed.pairing + 1]))
    /\ exposed' = [exposed EXCEPT !.pairing = @ + 1]
    /\ UNCHANGED << inputs, sentinel_success, onephase, finalized, pc, first_pass, challenge, ec_adds_decomposed,
                    ec_muls_decomposed, ec_pairings_decomposed, ec_adds_assigned,
                    ec_muls_assigned, ec_pairings_assigned, satisfied, probe >>

\* Ok(()) at the end of assign
AssignDone ==
    /\ pc = "expose"
    /\ exposed.add = Len(ec_adds_assigned)
    /\ exposed.mul = Len(ec_muls_assigned)
    /\ exposed.pairing = Len(ec_pairings_assigned)
    /\ pc' = "done"
    /\ UNCHANGED << inputs, sentinel_success, onephase, finalized, first_pass, challenge, ec_adds_decomposed,
                    ec_muls_decomposed, ec_pairings_decomposed, ec_adds_assigned,
                    ec_muls_assigned, ec_pairings_assigned, satisfied, table,
                    exposed, probe >>

Next ==
    \/ CapacityExceeded
    \/ AssignBegin
    \/ FirstPass
    \/ DecomposeEcAdd
    \/ DecomposeEcMul
    \/ DecomposeEcPairing
    \/ NextPhase
    \/ SamePhase
    \/ AssignEcAdd
    \/ AssignEcMul
    \/ AssignEcPairing
    \/ FinalizeRegion
    \/ ExposeEcAdd
    \/ ExposeEcMul
    \/ ExposeEcPairing
    \/ AssignDone

Spec == Init /\ [][Next]_vars

-----------------------------------------------------------------------------
(* One run of decompose_ec_add_op on any operands and any mask point *)

\* operands with exactly one zero coordinate, which load_private accepts
HalfZeroPoints == { Pt(0, 2), Pt(3, 0) }

AddProbePoints == G1All \cup HalfZeroPoints

InitAdd ==
    /\ PipelineIdle
    /\ sentinel_success = 0
    /\ \E P \in AddProbePoints, Q \in AddProbePoints, R \in AddProbePoints,
          rand \in CurvePoints :
          probe = [kind |-> "add", done |-> FALSE,
                   op |-> [p |-> P, q |-> Q, r |-> R, skip |-> FALSE],
                   rand |-> rand, sum1 |-> G1Zero, sum2 |-> G1Zero,
                   sum3 |-> G1Zero, strict_ok |-> FALSE, equal |-> FALSE,
                   accepted |-> FALSE]

VerifyAdd ==
    /\ probe.kind = "add"
    /\ ~probe.done
    /\ probe' = [probe EXCEPT
                   !.done = TRUE,
                   !.sum1 = EcAddSum1(probe.op, probe.rand),
                   !.sum2 = EcAddSum2(probe.op, probe.rand),
                   !.sum3 = EcAddSum3(probe.op, probe.rand),
                   !.strict_ok = EcAddStrictOk(probe.op, probe.rand),
                   !.equal = EcAddEqual(probe.op, probe.rand),
                   !.accepted = EcAddAccepts(probe.op, probe.rand)]
    /\ UNCHANGED pipeline_vars

NextAdd == VerifyAdd

SpecAdd == InitAdd /\ [][NextAdd]_vars

-----------------------------------------------------------------------------
(* One run of decompose_ec_mul_op on any operands *)

InitMul ==
    /\ PipelineIdle
    /\ sentinel_success = 0
    /\ \E P \in G1All, s \in Fr, R \in G1All :
          probe = [kind |-> "mul", done |-> FALSE,
                   op |-> [p |-> P, s |-> s, r |-> R, skip |-> FALSE],
                   got |-> G1Zero, accepted |-> FALSE]

VerifyMul ==
    /\ probe.kind = "mul"
    /\ ~probe.done
    /\ \E free \in Fq :
          probe' = [probe EXCEPT
                      !.done = TRUE,
                      !.got = EcMulGot(probe.op, free),
                      !.accepted = EcMulAccepts(probe.op, free)]
    /\ UNCHANGED pipeline_vars

NextMul == VerifyMul

SpecMul == InitMul /\ [][NextMul]_vars

-----------------------------------------------------------------------------
(* One run of decompose_ec_pairing_op on any pairs and any claimed output *)

\* the G2 operands tried: H, 2H, 5H and -H
PairingProbeG2 == { G2Mul(1), G2Mul(2), G2Mul(5), G2Mul(12) }

InitPairing ==
    /\ PipelineIdle
    /\ sentinel_success \in {0, 1}
    /\ \E pairs \in [1 .. N_PAIRING_PER_OP ->
                        [g1_point : G1All, g2_point : PairingProbeG2]],
          output \in BOOLEAN :
          probe = [kind |-> "pairing", done |-> FALSE,
                   op |-> [pairs |-> pairs, output |-> output, skip |-> FALSE],
                   input_cells |-> << >>, success |-> 0, accepted |-> FALSE]

VerifyPairing ==
    /\ probe.kind = "pairing"
    /\ ~probe.done
    /\ LET free == sentinel_success
           d == EcPairingDecomposed(probe.op, free)
       IN  probe' = [probe EXCEPT
                       !.done = TRUE,
                       !.input_cells = d.input_cells,
                       !.success = d.success,
                       !.accepted = EcPairingCrtOk(probe.op)
                                       /\ EcPairingAccepts(probe.op, free)]
    /\ UNCHANGED pipeline_vars

NextPairing == VerifyPairing

SpecPairing == InitPairing /\ [][NextPairing]_vars

-----------------------------------------------------------------------------
(* EccCircuit::min_num_rows_block and EccCircuit::unusable_rows *)

\* largest number of operations of one kind, and largest maximum, of a block
MaxCount == 2

\* k of the circuit: 2^k rows in all (scaled)
LOG_TOTAL_NUM_ROWS == 4

\* unusable rows reported by the Keccak and the EVM circuit
\* (meta.blinding_factors() + 1, so at least 1)
UnusableRowsRange == 1 .. 3

\* [a, b, ..].into_iter().max().unwrap()
RECURSIVE IterMax(_)
IterMax(xs) ==
    IF Len(xs) = 1 THEN xs[1]
    ELSE LET m == IterMax(Tail(xs)) IN IF xs[1] >= m THEN xs[1] ELSE m

unusable_rows(keccak, evm) == IterMax(<< keccak, evm >>)

RowNum(keccak, evm) ==
    LET max_blinding_factor == unusable_rows(keccak, evm) - 1
    IN  IntPow(2, LOG_TOTAL_NUM_ROWS) - (max_blinding_factor + 3)

\* usize division rounding up instead of down
MinRowNumRoundingUp(row_num, counts, maxima) ==
    IterMax(<< ((row_num + maxima.ec_add - 1) \div maxima.ec_add) * counts.ec_add,
               ((row_num + maxima.ec_mul - 1) \div maxima.ec_mul) * counts.ec_mul,
               ((row_num + maxima.ec_pairing - 1) \div maxima.ec_pairing)
                   * counts.ec_pairing >>)

MinRowNum(row_num, counts, maxima) ==
    IterMax(<< (row_num \div maxima.ec_add) * counts.ec_add,
               (row_num \div maxima.ec_mul) * counts.ec_mul,
               (row_num \div maxima.ec_pairing) * counts.ec_pairing >>)

EcOpCounts == [ec_add : 0 .. MaxCount, ec_mul : 0 .. MaxCount,
               ec_pairing : 0 .. MaxCount]

InitRows ==
    /\ PipelineIdle
    /\ sentinel_success = 0
    /\ \E counts \in EcOpCounts, maxima \in EcOpCounts,
          keccak \in UnusableRowsRange, evm \in UnusableRowsRange :
          probe = [kind |-> "rows", done |-> FALSE, panicked |-> FALSE,
                   counts |-> counts, max_ec_ops |-> maxima,
                   keccak |-> keccak, evm |-> evm,
                   min_row_num |-> 0, row_num |-> 0]

\* min_num_rows_block with three positive maxima
MinNumRowsBlock ==
    /\ probe.kind = "rows" /\ ~probe.done
    /\ probe.max_ec_ops.ec_add > 0
    /\ probe.max_ec_ops.ec_mul > 0
    /\ probe.max_ec_ops.ec_pairing > 0
    /\ LET row_num == RowNum(probe.keccak, probe.evm)
       IN  probe' = [probe EXCEPT
                       !.done = TRUE,
                       !.row_num = row_num,
                       !.min_row_num = MinRowNum(row_num, probe.counts,
                                                 probe.max_ec_ops)]
    /\ UNCHANGED pipeline_vars

\* min_num_rows_block with a maximum of zero: the usize division panics
MinNumRowsBlockDivByZero ==
    /\ probe.kind = "rows" /\ ~probe.done
    /\ \/ probe.max_ec_ops.ec_add = 0
       \/ probe.max_ec_ops.ec_mul = 0
       \/ probe.max_ec_ops.ec_pairing = 0
    /\ probe' = [probe EXCEPT !.done = TRUE, !.panicked = TRUE]
    /\ UNCHANGED pipeline_vars

NextRows ==
    \/ MinNumRowsBlock
    \/ MinNumRowsBlockDivByZero

SpecRows == InitRows /\ [][NextRows]_vars

-----------------------------------------------------------------------------
(* IdentityGadget (evm_circuit/execution/precompiles/identity.rs).  The     *)
(* cells hold values far below the field modulus, so they are integers.     *)

\* largest call data length of a call
MaxCallDataLength == 16

PRECOMPILE_IDENTITY_BASE == 15
PRECOMPILE_IDENTITY_PER_WORD == 3

CallKinds == { "CALL", "STATICCALL", "DELEGATECALL", "CALLCODE" }

\* ConstantDivisionGadget::assign: quotient and remainder of the numerator
ConstantDivisionAssign(numerator, denominator) ==
    [quotient |-> numerator \div denominator,
     remainder |-> numerator % denominator]

\* ConstantDivisionGadget::construct:
\* numerator = quotient * denominator + remainder with 0 <= remainder < denominator
ConstantDivisionHolds(numerator, denominator, w) ==
    /\ numerator = w.quotient * denominator + w.remainder
    /\ w.remainder \in 0 .. (denominator - 1)
    /\ w.quotient >= 0

\* a gas cost that counts whole words only
IdentityGasCostWholeWords(call_data_length) ==
    PRECOMPILE_IDENTITY_BASE
        + (call_data_length \div N_BYTES_WORD) * PRECOMPILE_IDENTITY_PER_WORD

\* gas_cost of assign_exec_step
IdentityGasCost(call_data_length) ==
    PRECOMPILE_IDENTITY_BASE
        + ((call_data_length + N_BYTES_WORD - 1) \div N_BYTES_WORD)
            * PRECOMPILE_IDENTITY_PER_WORD

\* the cells written by assign_exec_step
IdentityCells(call) ==
    [gas_cost |-> IdentityGasCost(call.call_data_length),
     input_word_size |->
         ConstantDivisionAssign(call.call_data_length + N_BYTES_WORD - 1,
                                N_BYTES_WORD),
     is_success |-> IF call.is_success THEN 1 ELSE 0,
     call_data_length |-> call.call_data_length]

\* the constraints built by configure on those cells
IdentityConstraints(cells) ==
    /\ ConstantDivisionHolds(cells.call_data_length + (N_BYTES_WORD - 1),
                             N_BYTES_WORD, cells.input_word_size)
    /\ cells.gas_cost =
          PRECOMPILE_IDENTITY_BASE
              + cells.input_word_size.quotient * PRECOMPILE_IDENTITY_PER_WORD

\* the arguments configure hands to RestoreContextGadget::construct2
IdentityRestoreContext(cells) ==
    [is_success |-> cells.is_success,
     gas_cost |-> cells.gas_cost,
     return_data_offset |-> 0,
     return_data_length |-> cells.call_data_length]

InitIdentity ==
    /\ PipelineIdle
    /\ sentinel_success = 0
    /\ \E len \in 0 .. MaxCallDataLength, kind \in CallKinds, ok \in BOOLEAN :
          probe = [kind |-> "identity", done |-> FALSE,
                   call |-> [call_kind |-> kind, call_data_length |-> len,
                             is_success |-> ok],
                   cells |-> << >>, restore_context |-> << >>,
                   satisfied |-> FALSE]

AssignExecStep ==
    /\ probe.kind = "identity" /\ ~probe.done
    /\ LET cells == IdentityCells(probe.call)
       IN  probe' = [probe EXCEPT
                       !.done = TRUE,
                       !.cells = cells,
                       !.restore_context = IdentityRestoreContext(cells),
                       !.satisfied = IdentityConstraints(cells)]
    /\ UNCHANGED pipeline_vars

NextIdentity == AssignExecStep

SpecIdentity == InitIdentity /\ [][NextIdentity]_vars

-----------------------------------------------------------------------------
(* One run of assert_crt_repr on a field element and any byte witnesses *)

\* values a byte witness cell is given: the cells are QuantumCell::Witness of
\* the native field and no constraint of the circuit bounds them by the radix
WitnessValues == { 0, 1, 2, 3, FrModulus - 1 }

InitCrt ==
    /\ PipelineIdle
    /\ sentinel_success = 0
    /\ \E x \in Fq, cells \in [1 .. N_BYTES_WORD -> WitnessValues] :
          probe = [kind |-> "crt", done |-> FALSE, x |-> x, bytes |-> cells,
                   limbs |-> << >>, accepted |-> FALSE]

\* load_private of x, then assert_crt_repr(crt_int, bytes, powers_of_256)
AssertCrtReprRun ==
    /\ probe.kind = "crt" /\ ~probe.done
    /\ probe' = [probe EXCEPT
                   !.done = TRUE,
                   !.limbs = [k \in 1 .. num_limbs |->
                                 InnerProduct(LimbCells(probe.bytes, k),
                                              SubSeq(PowersOf256, 1, LIMB_BYTES))],
                   !.accepted = AssertCrtRepr(probe.x, probe.bytes)]
    /\ UNCHANGED pipeline_vars

NextCrt == AssertCrtReprRun

SpecCrt == InitCrt /\ [][NextCrt]_vars

-----------------------------------------------------------------------------
(* One operation through both phases, with byte witnesses of the prover's   *)
(* choice: the cells of decompose_g1 / decompose_g2 are witnesses, and what *)
(* holds of them is what assert_crt_repr constrains                         *)

\* the witness choice: sequence seq of the operation (0: none) gets the
\* value val at position pos
Tampers ==
    [seq : 0 .. 6, pos : 1 .. N_BYTES_WORD, val : WitnessValues]

Tampered(cells, t, k) ==
    IF t.seq = k THEN [cells EXCEPT ![t.pos] = t.val] ELSE cells

\* decompose_g1 with the chosen witness: x is sequence k, y sequence k + 1
G1Witnessed(P, t, k) ==
    [ec_point |-> P,
     x_cells |-> Tampered(ByteCells(P.x), t, k),
     y_cells |-> Tampered(ByteCells(P.y), t, k + 1)]

\* decompose_g2 with the chosen witness: sequences k .. k + 3
G2Witnessed(Q, t, k) ==
    [ec_point |-> Q,
     x_c0_cells |-> Tampered(ByteCells(Q.x_c0), t, k),
     x_c1_cells |-> Tampered(ByteCells(Q.x_c1), t, k + 1),
     y_c0_cells |-> Tampered(ByteCells(Q.y_c0), t, k + 2),
     y_c1_cells |-> Tampered(ByteCells(Q.y_c1), t, k + 3)]

BindPairs ==
    { Pair(G1Mul(1), G2Mul(1)), Pair(G1Zero, G2Zero), Pair(G1Mul(12), G2Mul(2)) }

InitBind ==
    /\ PipelineIdle
    /\ sentinel_success = 0
    /\ \E t \in Tampers, c \in Challenges :
          \/ \E op \in AddOpSet :
                probe = [kind |-> "bind", done |-> FALSE, op_kind |-> "add",
                         op |-> op, c |-> c,
                         d |-> [point_p |-> G1Witnessed(op.p, t, 1),
                                point_q |-> G1Witnessed(op.q, t, 3),
                                point_r |-> G1Witnessed(op.r, t, 5)],
                         accepted |-> FALSE, assigned |-> << >>, row |-> << >>]
          \/ \E op \in MulOpSet :
                probe = [kind |-> "bind", done |-> FALSE, op_kind |-> "mul",
                         op |-> op, c |-> c,
                         d |-> [point_p |-> G1Witnessed(op.p, t, 1),
                                scalar_s |-> ScalarAssigned(op.s),
                                point_r |-> G1Witnessed(op.r, t, 3)],
                         accepted |-> FALSE, assigned |-> << >>, row |-> << >>]
          \/ \E pair \in BindPairs :
                probe = [kind |-> "bind", done |-> FALSE, op_kind |-> "pair",
                         op |-> pair, c |-> c,
                         d |-> [g1 |-> G1Witnessed(pair.g1_point, t, 1),
                                g2 |-> G2Witnessed(pair.g2_point, t, 3)],
                         accepted |-> FALSE, assigned |-> << >>, row |-> << >>]

\* decompose_ec_add_op's assign_g1 calls, then assign_ec_add and the row
BindEcAdd ==
    /\ probe.kind = "bind" /\ ~probe.done /\ probe.op_kind = "add"
    /\ LET a == EcAddAssigned(probe.d, KeccakPowers(probe.c))
       IN  probe' = [probe EXCEPT !.done = TRUE,
                                  !.accepted = EcAddCrtHolds(probe.d),
                                  !.assigned = a,
                                  !.row = EcAddRow(a)]
    /\ UNCHANGED pipeline_vars

\* decompose_ec_mul_op's assign_g1 and assign_fr calls, then assign_ec_mul
\* and the row
BindEcMul ==
    /\ probe.kind = "bind" /\ ~probe.done /\ probe.op_kind = "mul"
    /\ LET a == EcMulAssigned(probe.d, KeccakPowers(probe.c))
       IN  probe' = [probe EXCEPT !.done = TRUE,
                                  !.accepted = EcMulCrtHolds(probe.d),
                                  !.assigned = a,
                                  !.row = EcMulRow(a)]
    /\ UNCHANGED pipeline_vars

\* one pair of decompose_ec_pairing_op, then assign_ec_pairing over its
\* stream and the row
BindPair ==
    /\ probe.kind = "bind" /\ ~probe.done /\ probe.op_kind = "pair"
    /\ LET a == EcPairingAssigned(
                    [input_cells |-> PairInputCells(probe.d.g1, probe.d.g2),
                     success |-> 0],
                    KeccakPowers(probe.c))
       IN  probe' = [probe EXCEPT !.done = TRUE,
                                  !.accepted = PairCrtHolds(probe.d.g1, probe.d.g2),
                                  !.assigned = a,
                                  !.row = EcPairingRow(a)]
    /\ UNCHANGED pipeline_vars

NextBind ==
    \/ BindEcAdd
    \/ BindEcMul
    \/ BindPair

SpecBind == InitBind /\ [][NextBind]_vars

-----------------------------------------------------------------------------
(* Properties of EccCircuit::assign and of the exposed table *)

\* the RLC of a field value: its little-endian bytes against 1, c, c^2, ...
RECURSIVE RlcOfValueFrom(_, _, _)
RlcOfValueFrom(v, c, i) ==
    IF i = N_BYTES_WORD THEN 0
    ELSE (((v \div IntPow(BYTE_RADIX, i)) % BYTE_RADIX) * Pow(c, i, FrModulus)
             + RlcOfValueFrom(v, c, i + 1)) % FrModulus

RlcOfValue(v, c) == RlcOfValueFrom(v, c, 0)

\* the RLC of a byte stream read first byte first: ((b1 c + b2) c + b3) ...,
\* for the bytes lo .. hi, by halves
RECURSIVE RlcOfStreamFrom(_, _, _, _)
RlcOfStreamFrom(stream, c, lo, hi) ==
    IF lo > hi THEN 0
    ELSE IF lo = hi THEN stream[lo] % FrModulus
    ELSE LET mid == (lo + hi) \div 2
         IN  (RlcOfStreamFrom(stream, c, lo, mid) * Pow(c, hi - mid, FrModulus)
                 + RlcOfStreamFrom(stream, c, mid + 1, hi)) % FrModulus

RlcOfStream(stream, c) == RlcOfStreamFrom(stream, c, 1, Len(stream))

NonSkipped(ops) == SelectSeq(ops, LAMBDA op : ~op.skip)

ExpectedEcAddRow(op, c) ==
    [op_type |-> Bn128Add,
     arg1_rlc |-> RlcOfValue(op.p.x, c), arg2_rlc |-> RlcOfValue(op.p.y, c),
     arg3_rlc |-> RlcOfValue(op.q.x, c), arg4_rlc |-> RlcOfValue(op.q.y, c),
     output1_rlc |-> RlcOfValue(op.r.x, c), output2_rlc |-> RlcOfValue(op.r.y, c),
     input_rlc |-> 0]

ExpectedEcMulRow(op, c) ==
    [op_type |-> Bn128Mul,
     arg1_rlc |-> RlcOfValue(op.p.x, c), arg2_rlc |-> RlcOfValue(op.p.y, c),
     arg3_rlc |-> op.s % FrModulus, arg4_rlc |-> 0,
     output1_rlc |-> RlcOfValue(op.r.x, c), output2_rlc |-> RlcOfValue(op.r.y, c),
     input_rlc |-> 0]

\* the columns of an EcPairing row that the operands alone determine
PairingRowMatches(row, op, c) ==
    /\ row.op_type = Bn128Pairing
    /\ row.input_rlc = RlcOfStream(PairingInputCells(op.pairs, 1), c)
    /\ PairsOnCurve(op.pairs) => row.output1_rlc = PairingSuccess(op.pairs, 0)

ZeroRow(tag) ==
    [op_type |-> tag, arg1_rlc |-> 0, arg2_rlc |-> 0, arg3_rlc |-> 0,
     arg4_rlc |-> 0, output1_rlc |-> 0, output2_rlc |-> 0, input_rlc |-> 0]

MulBase == max_add_ops
PairingBase == max_add_ops + max_mul_ops
TableHeight == max_add_ops + max_mul_ops + max_pairing_ops

CountExceedsMaximum ==
    \/ Len(add_ops) > max_add_ops
    \/ Len(mul_ops) > max_mul_ops
    \/ Len(pairing_ops) > max_pairing_ops

NothingAssigned ==
    /\ table = << >>
    /\ first_pass
    /\ ec_adds_decomposed = << >> /\ ec_muls_decomposed = << >>
    /\ ec_pairings_decomposed = << >>
    /\ ec_adds_assigned = << >> /\ ec_muls_assigned = << >>
    /\ ec_pairings_assigned = << >>

\* C1: assign ends in the capacity error exactly when one of the three
\* supplied counts is strictly greater than its maximum (a count equal to its
\* maximum goes on), and when it does no region has been assigned and no
\* table row written.
C1_CapacityErrorIffCountExceeds ==
    /\ (pc = "err") => (CountExceedsMaximum /\ NothingAssigned)
    /\ CountExceedsMaximum => (pc \in {"start", "err"} /\ NothingAssigned)

\* an error raised by the EcMul count alone, the EcAdd count being at its maximum
C1_Witness ==
    /\ pc = "err"
    /\ Len(mul_ops) > max_mul_ops
    /\ Len(add_ops) = max_add_ops /\ max_add_ops > 0
    /\ Len(pairing_ops) <= max_pairing_ops

\* C2: after a successful assign the table has exactly
\* max_add + max_mul + max_pairing rows, whatever the number of supplied
\* operations, in three disjoint blocks tagged EcAdd, EcMul, EcPairing in
\* that order.
C2_TableHasThreeTaggedBlocks ==
    (pc = "done") =>
        /\ DOMAIN table = 0 .. (TableHeight - 1)
        /\ \A r \in 0 .. (TableHeight - 1) :
              table[r].op_type =
                 IF r < MulBase THEN Bn128Add
                 ELSE IF r < PairingBase THEN Bn128Mul
                 ELSE Bn128Pairing

C2_Witness ==
    /\ pc = "done"
    /\ max_add_ops > 0 /\ max_mul_ops > 0 /\ max_pairing_ops > 0
    /\ Len(add_ops) < max_add_ops
    /\ Len(mul_ops) = max_mul_ops


\* the slots n .. m - 1 of a block with n supplied operations and maximum m
PaddingSlots(n, m) == { i \in 0 .. (m - 1) : i >= n }

C4_RowHoldsIthSupplied ==
    (pc = "done") =>
        /\ \A i \in 1 .. Len(add_ops) :
              table[i - 1] = ExpectedEcAddRow(add_ops[i], challenge)
        /\ \A i \in 1 .. Len(mul_ops) :
              table[MulBase + i - 1] = ExpectedEcMulRow(mul_ops[i], challenge)
        /\ \A i \in 1 .. Len(pairing_ops) :
              PairingRowMatches(table[PairingBase + i - 1], pairing_ops[i], challenge)

\* C4: within each block the operations that are not skipped come first and
\* in input order: row (block base + i) holds the values of the i-th supplied
\* operation among those for which skip_by_ecc_circuit() is false, and the
\* rows after them are those of the padding operation.
C4_RowHoldsIthNonSkipped ==
    (pc = "done") =>
        /\ \A i \in 1 .. max_add_ops :
              table[i - 1] =
                 ExpectedEcAddRow(IF i <= Len(NonSkipped(add_ops))
                                  THEN NonSkipped(add_ops)[i]
                                  ELSE EcAddOpDefault, challenge)
        /\ \A i \in 1 .. max_mul_ops :
              table[MulBase + i - 1] =
                 ExpectedEcMulRow(IF i <= Len(NonSkipped(mul_ops))
                                  THEN NonSkipped(mul_ops)[i]
                                  ELSE EcMulOpDefault, challenge)
        /\ \A i \in 1 .. max_pairing_ops :
              PairingRowMatches(table[PairingBase + i - 1],
                                IF i <= Len(NonSkipped(pairing_ops))
                                THEN NonSkipped(pairing_ops)[i]
                                ELSE EcPairingOpDefault, challenge)

\* two different EcAdd operations in rows 0 and 1, in the order supplied
C4_Witness ==
    /\ pc = "done"
    /\ Len(add_ops) = 2 /\ max_add_ops = 2
    /\ ~add_ops[1].skip /\ ~add_ops[2].skip /\ add_ops[1] # add_ops[2]
    /\ table[0] = ExpectedEcAddRow(add_ops[1], challenge)
    /\ table[1] = ExpectedEcAddRow(add_ops[2], challenge)
    /\ table[0] # table[1]

\* a skipped EcAdd operation supplied ahead of one that is not skipped
C4_SkippedFirst ==
    /\ pc = "done"
    /\ Len(add_ops) = 2 /\ max_add_ops = 2
    /\ add_ops[1].skip /\ ~add_ops[2].skip
    /\ table[0] = ExpectedEcAddRow(add_ops[2], challenge)


\* C5: every EcAdd row has arg1..arg4 equal to the RLCs of P.x, P.y, Q.x,
\* Q.y in that order, output1 and output2 equal to the RLCs of R.x and R.y,
\* and input_rlc equal to 0, P, Q, R being the points loaded for its slot.
C5_EcAddRowColumns ==
    \A r \in DOMAIN table :
        (r < MulBase) =>
            LET d == ec_adds_decomposed[r + 1]
                row == table[r]
            IN  /\ row.arg1_rlc = RlcOfValue(d.point_p.ec_point.x, challenge)
                /\ row.arg2_rlc = RlcOfValue(d.point_p.ec_point.y, challenge)
                /\ row.arg3_rlc = RlcOfValue(d.point_q.ec_point.x, challenge)
                /\ row.arg4_rlc = RlcOfValue(d.point_q.ec_point.y, challenge)
                /\ row.output1_rlc = RlcOfValue(d.point_r.ec_point.x, challenge)
                /\ row.output2_rlc = RlcOfValue(d.point_r.ec_point.y, challenge)
                /\ row.input_rlc = 0

\* an EcAdd row of a supplied operation whose six RLCs are not all alike
C5_Witness ==
    /\ pc = "done"
    /\ max_add_ops > 0 /\ Len(add_ops) > 0 /\ ~add_ops[1].skip
    /\ add_ops[1].p # G1Zero /\ add_ops[1].q # G1Zero
    /\ table[0].arg2_rlc # table[0].arg3_rlc
    /\ table[0].arg1_rlc # table[0].output1_rlc
    /\ table[0].arg2_rlc = RlcOfValue(add_ops[1].p.y, challenge)

\* C6: every EcMul row has arg1 and arg2 equal to the RLCs of P.x and P.y,
\* arg3 equal to the scalar s as a native field value, whatever the
\* challenge, arg4 equal to 0, output1 and output2 equal to the RLCs of R.x
\* and R.y, and input_rlc equal to 0.
C6_EcMulRowColumns ==
    \A r \in DOMAIN table :
        (r >= MulBase /\ r < PairingBase) =>
            LET d == ec_muls_decomposed[r - MulBase + 1]
                op == PaddedOp(mul_ops, EcMulOpDefault, r - MulBase + 1)
                row == table[r]
            IN  /\ row.arg1_rlc = RlcOfValue(d.point_p.ec_point.x, challenge)
                /\ row.arg2_rlc = RlcOfValue(d.point_p.ec_point.y, challenge)
                /\ row.arg3_rlc = op.s % FrModulus
                /\ row.arg4_rlc = 0
                /\ row.output1_rlc = RlcOfValue(d.point_r.ec_point.x, challenge)
                /\ row.output2_rlc = RlcOfValue(d.point_r.ec_point.y, challenge)
                /\ row.input_rlc = 0

\* an EcMul row whose arg3 is the scalar although the RLC of the scalar's
\* bytes under the challenge is another value
C6_Witness ==
    /\ pc = "done"
    /\ max_mul_ops > 0 /\ Len(mul_ops) > 0 /\ ~mul_ops[1].skip
    /\ table[MulBase].arg3_rlc = mul_ops[1].s
    /\ RlcOfValue(mul_ops[1].s, challenge) # mul_ops[1].s
    /\ table[MulBase].arg1_rlc # 0

\* C7: every EcPairing row has output1 equal to the success bit computed in
\* phase 1, input_rlc equal to the RLC of the operation's whole input byte
\* stream, and arg1, arg2, arg3, arg4 and output2 equal to 0.
C7_EcPairingRowColumns ==
    \A r \in DOMAIN table :
        (r >= PairingBase) =>
            LET d == ec_pairings_decomposed[r - PairingBase + 1]
                row == table[r]
            IN  /\ row.output1_rlc = d.success
                /\ row.input_rlc = RlcOfStream(d.input_cells, challenge)
                /\ row.arg1_rlc = 0 /\ row.arg2_rlc = 0
                /\ row.arg3_rlc = 0 /\ row.arg4_rlc = 0
                /\ row.output2_rlc = 0

\* an EcPairing row of a supplied balanced pair set
C7_Witness ==
    /\ pc = "done"
    /\ max_pairing_ops > 0 /\ Len(pairing_ops) > 0
    /\ pairing_ops[1].output
    /\ table[PairingBase].output1_rlc = 1
    /\ table[PairingBase].input_rlc # 0
    /\ table[PairingBase].input_rlc =
          RlcOfStream(PairingInputCells(pairing_ops[1].pairs, 1), challenge)


-----------------------------------------------------------------------------
(* Properties of the EcAdd verifier *)

AddDone == probe.kind = "add" /\ probe.done

\* each unequal-point gadget whose result is selected has operands with
\* distinct x-coordinates
AddSelectedDistinct ==
    /\ ~PointIsZero(probe.op.p) => probe.rand.x # probe.op.p.x
    /\ ~PointIsZero(probe.op.q) => probe.sum1.x # probe.op.q.x
    /\ ~PointIsZero(probe.op.r) => probe.sum2.x # probe.op.r.x

AddOperandsInGroup ==
    probe.op.p \in G1All /\ probe.op.q \in G1All /\ probe.op.r \in G1All

AddIsEdgeCase ==
    \E A \in CurvePoints :
        \/ probe.op.p = G1Zero /\ probe.op.q = A /\ probe.op.r = A
        \/ probe.op.p = A /\ probe.op.q = G1Zero /\ probe.op.r = A
        \/ probe.op.p = A /\ probe.op.q = G1Neg(A) /\ probe.op.r = G1Zero

\* the edge cases satisfy rand == sum3 whatever the mask point
C8_EdgeCasesSatisfyEquality == (AddDone /\ AddIsEdgeCase) => probe.equal

\* C8: for a curve point A the triples ((0,0), A, A), (A, (0,0), A) and
\* (A, -A, (0,0)) satisfy rand == sum3 and every other constraint of the
\* verifier, for each mask point rand whose selected additions and
\* subtraction have operands with distinct x-coordinates (each rand other than
\* A, -A and -2A); an operand with only one zero coordinate is not treated
\* as the sentinel, its addition to rand being the selected sum.
C8_EdgeCasesAcceptedForDistinctX ==
    /\ (AddDone /\ AddIsEdgeCase /\ AddSelectedDistinct) =>
          (probe.equal /\ probe.accepted)
    /\ (AddDone /\ AddIsEdgeCase /\ ~AddSelectedDistinct) =>
          \E A \in CurvePoints :
              /\ A \in {probe.op.p, probe.op.q}
              /\ probe.rand \in {A, G1Neg(A), G1Neg(GroupAdd(A, A))}
    /\ (AddDone /\ probe.op.p \in HalfZeroPoints /\ probe.rand.x # probe.op.p.x) =>
          probe.sum1 = AddUnequalPt(probe.rand, probe.op.p, 0)

\* the case (A, -A, (0,0)) accepted
C8_Witness ==
    /\ AddDone /\ AddSelectedDistinct
    /\ probe.op.p \in CurvePoints
    /\ probe.op.q = G1Neg(probe.op.p)
    /\ probe.op.r = G1Zero
    /\ probe.sum2 = probe.rand
    /\ probe.accepted

\* the case ((0,0), A, A) with the mask point -A: rand == sum3 fails
C8_MaskCollides ==
    /\ AddDone
    /\ probe.op.p = G1Zero /\ probe.op.q \in CurvePoints
    /\ probe.op.r = probe.op.q
    /\ probe.rand = G1Neg(probe.op.q)
    /\ ~probe.equal

\* C9: for P, Q, R each a curve point or (0,0), and a mask point rand for
\* which each selected unequal-point addition or subtraction has operands
\* with distinct x-coordinates, rand == sum3 holds exactly when P + Q = R in
\* the group with (0,0) as identity, and then every constraint of the
\* verifier holds; a claimed R other than P + Q is rejected.
C9_EcAddSoundAndComplete ==
    (AddDone /\ AddOperandsInGroup /\ AddSelectedDistinct) =>
        /\ probe.equal <=> (GroupAdd(probe.op.p, probe.op.q) = probe.op.r)
        /\ probe.accepted <=> probe.equal

\* three curve points with R other than P + Q, rejected
C9_Witness ==
    /\ AddDone /\ AddSelectedDistinct
    /\ probe.op.p \in CurvePoints /\ probe.op.q \in CurvePoints
    /\ probe.op.r \in CurvePoints
    /\ probe.op.p # probe.op.q
    /\ GroupAdd(probe.op.p, probe.op.q) # probe.op.r
    /\ ~probe.equal /\ ~probe.accepted


-----------------------------------------------------------------------------
(* Properties of the EcMul verifier *)

MulDone == probe.kind = "mul" /\ probe.done

C10_ZeroScalarRejected ==
    /\ MulDone
    /\ probe.op.p \in CurvePoints
    /\ probe.op.s = 0
    /\ probe.op.r = G1Zero
    /\ probe.got = probe.op.p
    /\ ~probe.accepted


-----------------------------------------------------------------------------
(* Properties of the EcPairing verifier *)

PairingDone == probe.kind = "pairing" /\ probe.done

\* the exponent of e(G, H) in the product of the pairings of the first n pairs
RECURSIVE LogOfPairingProduct(_, _)
LogOfPairingProduct(pairs, n) ==
    IF n = 0 THEN 0
    ELSE LogOfPairingProduct(pairs, n - 1)
            + G1Dlog(pairs[n].g1_point) * G2Dlog(pairs[n].g2_point)

\* the product of the pairings is the identity of the target group
Balanced(pairs) == LogOfPairingProduct(pairs, Len(pairs)) % FrModulus = 0

\* C11: the EcPairing verifier computes one success bit from the product of
\* the pairings of all pairs of the operation (1 when the product is the
\* identity of the target group, else 0) and asserts it equal to the claimed
\* output: a balanced pair set is accepted with output true and rejected
\* with output false, an unbalanced one is accepted with output false and
\* rejected with output true.
C11_PairingAcceptsIffOutputIsBalance ==
    (PairingDone /\ PairsOnCurve(probe.op.pairs)) =>
        /\ probe.success = (IF Balanced(probe.op.pairs) THEN 1 ELSE 0)
        /\ probe.accepted <=> (probe.op.output <=> Balanced(probe.op.pairs))
        /\ (/\ probe.op.pairs[2].g1_point = G1Neg(probe.op.pairs[1].g1_point)
            /\ probe.op.pairs[2].g2_point = probe.op.pairs[1].g2_point)
              => (probe.accepted <=> probe.op.output)
        /\ (probe.op.pairs[2] = probe.op.pairs[1])
              => (probe.accepted <=> ~probe.op.output)

\* the balanced set (P, Q), (-P, Q) accepted with output true
C11_Witness ==
    /\ PairingDone
    /\ probe.op.pairs[1].g1_point \in CurvePoints
    /\ probe.op.pairs[1].g2_point \in G2Points
    /\ probe.op.pairs[2].g1_point = G1Neg(probe.op.pairs[1].g1_point)
    /\ probe.op.pairs[2].g2_point = probe.op.pairs[1].g2_point
    /\ probe.op.output
    /\ probe.success = 1
    /\ probe.accepted


-----------------------------------------------------------------------------
(* Determinism of the exported values *)

\* the operation of slot i (from 1) of a block, from the supplied list alone
SlotOp(ops, default, i) ==
    IF i <= Len(NonSkipped(ops)) THEN NonSkipped(ops)[i] ELSE default

ExpectedEcPairingRow(op, c) ==
    [op_type |-> Bn128Pairing,
     arg1_rlc |-> 0, arg2_rlc |-> 0, arg3_rlc |-> 0, arg4_rlc |-> 0,
     output1_rlc |-> IF PairsOnCurve(op.pairs)
                     THEN (IF Balanced(op.pairs) THEN 1 ELSE 0)
                     ELSE sentinel_success,
     output2_rlc |-> 0,
     input_rlc |-> RlcOfStream(PairingInputCells(op.pairs, 1), c)]

\* the table as a function of the operation lists, the maxima and the
\* challenge; the mask points do not occur in it
ExpectedTable ==
    [r \in 0 .. (TableHeight - 1) |->
        IF r < MulBase
        THEN ExpectedEcAddRow(SlotOp(add_ops, EcAddOpDefault, r + 1), challenge)
        ELSE IF r < PairingBase
        THEN ExpectedEcMulRow(SlotOp(mul_ops, EcMulOpDefault, r - MulBase + 1),
                              challenge)
        ELSE ExpectedEcPairingRow(
                 SlotOp(pairing_ops, EcPairingOpDefault, r - PairingBase + 1),
                 challenge)]

\* C12: the exported values are determined by the operation lists, the
\* maxima and the challenge: every run that ends successfully on the same
\* inputs with the same challenge has the same table, whatever mask points
\* the EcAdd verifier drew, and the same operand supplied twice gets the same
\* RLC.
C12_TableIsFunctionOfInputs ==
    (pc = "done") =>
        /\ DOMAIN table = DOMAIN ExpectedTable
        /\ \A r \in DOMAIN table : table[r] = ExpectedTable[r]

\* the same EcAdd operation supplied twice: rows 0 and 1 are equal, in a run
\* where the mask points made one of the checks fail
C12_Witness ==
    /\ pc = "done"
    /\ Len(add_ops) = 2 /\ max_add_ops = 2
    /\ add_ops[1] = add_ops[2] /\ ~add_ops[1].skip
    /\ table[0] = table[1]
    /\ table[0] # ZeroRow(Bn128Add)
    /\ ~satisfied


-----------------------------------------------------------------------------
(* Properties of min_num_rows_block *)

RowsDone == probe.kind = "rows" /\ probe.done /\ ~probe.panicked

\* floor(a / b) as the largest q with q * b <= a
FloorOf(a, b) == CHOOSE q \in 0 .. a : q * b <= a /\ a < (q + 1) * b

\* the three products floor(row_num / max_kind) * count_kind
CapacityShares(row_num, counts, maxima) ==
    { FloorOf(row_num, maxima.ec_add) * counts.ec_add,
      FloorOf(row_num, maxima.ec_mul) * counts.ec_mul,
      FloorOf(row_num, maxima.ec_pairing) * counts.ec_pairing }

CountsWithinMaxima(counts, maxima) ==
    /\ counts.ec_add <= maxima.ec_add
    /\ counts.ec_mul <= maxima.ec_mul
    /\ counts.ec_pairing <= maxima.ec_pairing

CountsAtLeast(more, counts) ==
    /\ more.ec_add >= counts.ec_add
    /\ more.ec_mul >= counts.ec_mul
    /\ more.ec_pairing >= counts.ec_pairing

\* C13: min_num_rows_block returns row_num = 2^LOG_TOTAL_NUM_ROWS -
\* (unusable_rows - 1 + 3) and min_row_num = the largest of
\* floor(row_num / max_kind) * count_kind; with every count at most its
\* (positive) maximum min_row_num <= row_num, and raising any count never
\* lowers min_row_num.
C13_MinNumRowsBlock ==
    RowsDone =>
        LET shares == CapacityShares(probe.row_num, probe.counts, probe.max_ec_ops)
            ub == IF probe.keccak >= probe.evm THEN probe.keccak ELSE probe.evm
        IN  /\ probe.row_num = IntPow(2, LOG_TOTAL_NUM_ROWS) - (ub - 1 + 3)
            /\ probe.min_row_num \in shares
            /\ \A x \in shares : x <= probe.min_row_num
            /\ CountsWithinMaxima(probe.counts, probe.max_ec_ops)
                   => probe.min_row_num <= probe.row_num
            /\ \A more \in EcOpCounts :
                   CountsAtLeast(more, probe.counts)
                       => MinRowNum(probe.row_num, more, probe.max_ec_ops)
                              >= probe.min_row_num

\* every kind filled to its maximum, with maxima that do not divide row_num
C13_Witness ==
    /\ RowsDone
    /\ probe.counts = probe.max_ec_ops
    /\ probe.max_ec_ops.ec_add = 2
    /\ probe.row_num = 13
    /\ probe.min_row_num = 13


-----------------------------------------------------------------------------
(* Properties of the Identity precompile gadget *)

IdentityDone == probe.kind = "identity" /\ probe.done

\* number of words that hold n bytes: the least w with w * N_BYTES_WORD >= n
WordsFor(n) == CHOOSE w \in 0 .. n : w * N_BYTES_WORD >= n
                                      /\ \A v \in 0 .. (w - 1) : v * N_BYTES_WORD < n

\* C14: for every Identity call, of any call data length and call kind, the
\* witnessed gas cost base + floor((len + word - 1) / word) * per_word
\* satisfies the gas constraint of configure, and the restored context has
\* return-data offset 0 and return-data length = call data length.
C14_IdentityGasAndRestoredContext ==
    IdentityDone =>
        /\ probe.satisfied
        /\ probe.cells.gas_cost =
              PRECOMPILE_IDENTITY_BASE
                  + WordsFor(probe.call.call_data_length)
                        * PRECOMPILE_IDENTITY_PER_WORD
        /\ probe.restore_context.return_data_offset = 0
        /\ probe.restore_context.return_data_length = probe.call.call_data_length
        /\ probe.restore_context.gas_cost = probe.cells.gas_cost

\* a DELEGATECALL whose data ends inside a word
C14_Witness ==
    /\ IdentityDone
    /\ probe.call.call_kind = "DELEGATECALL"
    /\ probe.call.call_data_length = N_BYTES_WORD + 1
    /\ probe.cells.gas_cost = PRECOMPILE_IDENTITY_BASE + 2 * PRECOMPILE_IDENTITY_PER_WORD
    /\ probe.satisfied


-----------------------------------------------------------------------------
(* Order of the two phases *)

\* some RLC inner product with the challenge powers has been computed
RlcStarted ==
    \/ pc \in {"phase2", "expose", "done"}
    \/ ec_adds_assigned # << >>
    \/ ec_muls_assigned # << >>
    \/ ec_pairings_assigned # << >>

\* every slot of every kind, real and padding, has been decomposed
AllDecomposed ==
    /\ Len(ec_adds_decomposed) = max_add_ops
    /\ Len(ec_muls_decomposed) = max_mul_ops
    /\ Len(ec_pairings_decomposed) = max_pairing_ops

\* what phase 1 has built is what the operations alone determine
DecomposedFromOpsOnly ==
    /\ \A i \in 1 .. Len(ec_adds_decomposed) :
          ec_adds_decomposed[i] = EcAddDecomposed(SlotOp(add_ops, EcAddOpDefault, i))
    /\ \A i \in 1 .. Len(ec_muls_decomposed) :
          ec_muls_decomposed[i] = EcMulDecomposed(SlotOp(mul_ops, EcMulOpDefault, i))
    /\ \A i \in 1 .. Len(ec_pairings_decomposed) :
          ec_pairings_decomposed[i] =
              EcPairingDecomposed(SlotOp(pairing_ops, EcPairingOpDefault, i),
                                  sentinel_success)

-----------------------------------------------------------------------------
(* Properties of assert_crt_repr *)

CrtDone == probe.kind = "crt" /\ probe.done

\* the canonical little-endian digits of x, least significant first
RECURSIVE CanonicalDigits(_, _)
CanonicalDigits(x, n) ==
    IF n = 0 THEN << >>
    ELSE << x % BYTE_RADIX >> \o CanonicalDigits(x \div BYTE_RADIX, n - 1)

\* C16: if the constraints of assert_crt_repr hold for a field element, the
\* byte witnesses are that element's canonical little-endian bytes; no other
\* tuple of witness values satisfies the three limb equalities.
C16_AcceptedBytesAreCanonical ==
    (CrtDone /\ probe.accepted) => probe.bytes = CanonicalDigits(probe.x, N_BYTES_WORD)

\* the weighted sum of one group of bytes, counted from the start of the group
RECURSIVE GroupSum(_, _)
GroupSum(group, j) ==
    IF j > Len(group) THEN 0
    ELSE group[j] * IntPow(BYTE_RADIX, j - 1) + GroupSum(group, j + 1)

\* the k-th limb of x: limb_bits bits from bit limb_bits * (k - 1) on
LimbOf(x, k) ==
    (x \div IntPow(2, limb_bits * (k - 1))) % IntPow(2, limb_bits)

-----------------------------------------------------------------------------
(* The RLC of the G1 coordinates *)

\* sum of b_i * c^i over the digits b_0, b_1, .. of a sequence, in the integers
RECURSIVE WeightedSum(_, _, _)
WeightedSum(digits, c, i) ==
    IF i > Len(digits) THEN 0
    ELSE digits[i] * IntPow(c, i - 1) + WeightedSum(digits, c, i + 1)

\* the pairs << coordinate, RLC in the table >> of every G1 coordinate of the
\* EcAdd and EcMul rows
CoordinateRlcs ==
    UNION { LET op == SlotOp(add_ops, EcAddOpDefault, r + 1)
                row == table[r]
            IN  { << op.p.x, row.arg1_rlc >>, << op.p.y, row.arg2_rlc >>,
                  << op.q.x, row.arg3_rlc >>, << op.q.y, row.arg4_rlc >>,
                  << op.r.x, row.output1_rlc >>, << op.r.y, row.output2_rlc >> }
            : r \in 0 .. (MulBase - 1) }
    \cup
    UNION { LET op == SlotOp(mul_ops, EcMulOpDefault, r - MulBase + 1)
                row == table[r]
            IN  { << op.p.x, row.arg1_rlc >>, << op.p.y, row.arg2_rlc >>,
                  << op.r.x, row.output1_rlc >>, << op.r.y, row.output2_rlc >> }
            : r \in MulBase .. (PairingBase - 1) }

\* C18: for every G1 coordinate of an EcAdd or EcMul operation the RLC in
\* the table is the sum of b_i * challenge^i over the bytes b_i of the
\* coordinate's little-endian form, least significant byte at challenge^0;
\* it is a function of that coordinate and the challenge alone.
C18_CoordinateRlcIsLittleEndianSum ==
    (pc = "done") =>
        \A pr \in CoordinateRlcs :
            pr[2] = WeightedSum(CanonicalDigits(pr[1], N_BYTES_WORD), challenge, 1)
                        % FrModulus

\* a coordinate of several non-zero bytes under the challenge that does not
\* map a value to itself, in a table with EcAdd and EcMul rows
C18_Witness ==
    /\ pc = "done"
    /\ challenge = 6
    /\ max_add_ops > 0 /\ max_mul_ops > 0
    /\ \E pr \in CoordinateRlcs : pr[1] >= 5 /\ pr[2] # pr[1]
    /\ table[0].arg1_rlc # 0
    /\ table[MulBase].arg1_rlc # 0


-----------------------------------------------------------------------------
(* The input byte stream of an EcPairing operation *)

\* the n big-endian digits of x, most significant first
RECURSIVE BigEndianDigits(_, _)
BigEndianDigits(x, n) ==
    IF n = 0 THEN << >>
    ELSE << (x \div IntPow(BYTE_RADIX, n - 1)) % BYTE_RADIX >>
             \o BigEndianDigits(x % IntPow(BYTE_RADIX, n - 1), n - 1)

\* the calldata bytes of one pair
PairCalldata(pair) ==
    BigEndianDigits(pair.g1_point.x, N_BYTES_WORD)
        \o BigEndianDigits(pair.g1_point.y, N_BYTES_WORD)
        \o BigEndianDigits(pair.g2_point.x_c1, N_BYTES_WORD)
        \o BigEndianDigits(pair.g2_point.x_c0, N_BYTES_WORD)
        \o BigEndianDigits(pair.g2_point.y_c1, N_BYTES_WORD)
        \o BigEndianDigits(pair.g2_point.y_c0, N_BYTES_WORD)

\* C19: the input stream of a pairing operation is, pair after pair in input
\* order, G1.x, G1.y, G2.x.c1, G2.x.c0, G2.y.c1, G2.y.c0, each as one word of
\* big-endian bytes, N_BYTES_PER_PAIR bytes per pair.
C19_InputStreamIsCalldataLayout ==
    PairingDone =>
        /\ Len(probe.input_cells) = Len(probe.op.pairs) * N_BYTES_PER_PAIR
        /\ \A i \in 1 .. Len(probe.op.pairs) :
              SubSeq(probe.input_cells, (i - 1) * N_BYTES_PER_PAIR + 1,
                     i * N_BYTES_PER_PAIR)
                  = PairCalldata(probe.op.pairs[i])

\* two different pairs whose G2 coefficients differ inside each coordinate
C19_Witness ==
    /\ PairingDone
    /\ probe.op.pairs[1] # probe.op.pairs[2]
    /\ probe.op.pairs[1].g1_point = G1Gen
    /\ probe.op.pairs[1].g2_point = G2Mul(1)
    /\ probe.op.pairs[2].g2_point = G2Mul(2)
    /\ probe.input_cells[N_BYTES_WORD] = 1
    /\ SubSeq(probe.input_cells, 2 * N_BYTES_WORD + 1, 3 * N_BYTES_WORD)
          = BigEndianDigits(4, N_BYTES_WORD)


-----------------------------------------------------------------------------
(* The RLC of the pairing input stream *)

\* sum over i in lo .. hi of s_{n-1-i} * c^i for the stream s_0 .. s_{n-1}
\* (s[1] .. s[n]),
\* every byte of the stream with the power of its own distance from the end
RECURSIVE ReversedStreamSum(_, _, _, _)
ReversedStreamSum(s, c, lo, hi) ==
    IF lo > hi THEN 0
    ELSE IF lo = hi THEN (s[Len(s) - lo] * Pow(c, lo, FrModulus)) % FrModulus
    ELSE LET mid == (lo + hi) \div 2
         IN  (ReversedStreamSum(s, c, lo, mid)
                 + ReversedStreamSum(s, c, mid + 1, hi)) % FrModulus

\* C20: the input_rlc of a pairing operation is one RLC over its whole
\* stream taken in reverse: the last byte has weight challenge^0, the first
\* byte challenge^(n-1); the stream is no longer than the
\* N_PAIRING_PER_OP * N_BYTES_PER_PAIR powers, so every byte has a power of
\* its own.
C20_InputRlcIsReversedStreamSum ==
    \A i \in 1 .. Len(ec_pairings_assigned) :
        LET s == ec_pairings_decomposed[i].input_cells
        IN  /\ Len(s) <= N_PAIRING_PER_OP * N_BYTES_PER_PAIR
            /\ ec_pairings_assigned[i].input_rlc = ReversedStreamSum(s, challenge, 0, Len(s) - 1)

\* a stream of full length whose RLC is not zero, under the challenge 6
C20_Witness ==
    /\ challenge = 6
    /\ Len(ec_pairings_assigned) > 0
    /\ Len(ec_pairings_decomposed[1].input_cells) = N_PAIRING_PER_OP * N_BYTES_PER_PAIR
    /\ ec_pairings_decomposed[1].input_cells[N_BYTES_WORD] = 1
    /\ ec_pairings_assigned[1].input_rlc # 0


-----------------------------------------------------------------------------
(* The cells written by the export *)

\* the columns of the ECC table
TableColumns ==
    { "op_type", "arg1_rlc", "arg2_rlc", "arg3_rlc", "arg4_rlc",
      "output1_rlc", "output2_rlc", "input_rlc" }

\* iterations of the three export loops so far: each writes the 8 cells of
\* one row offset
RowsWritten == exposed.add + exposed.mul + exposed.pairing

\* C21: during the export every cell (column, row) with row in
\* [0, max_add + max_mul + max_pairing) is written exactly once: the rows
\* written so far are as many as the loop iterations that wrote them (no
\* iteration writes a row a second time), each holds all 8 columns, none
\* lies outside the range, and at the end every row of the range is written.
C21_EveryCellWrittenOnce ==
    /\ DOMAIN table \subseteq 0 .. (TableHeight - 1)
    /\ Cardinality(DOMAIN table) = RowsWritten
    /\ \A r \in DOMAIN table : DOMAIN table[r] = TableColumns
    /\ (pc = "done") => DOMAIN table = 0 .. (TableHeight - 1)

\* a finished export over one row of each kind
C21_Witness ==
    /\ pc = "done"
    /\ max_add_ops = 1 /\ max_mul_ops = 1 /\ max_pairing_ops = 1
    /\ RowsWritten = 3
    /\ DOMAIN table = 0 .. 2


-----------------------------------------------------------------------------
(* The bytes that enter the RLCs are bound in phase 1 *)

BindDone == probe.kind = "bind" /\ probe.done

\* sum of cells[i] * c^(i-1) in the native field
RECURSIVE SequenceRlc(_, _, _)
SequenceRlc(cells, c, i) ==
    IF i > Len(cells) THEN 0
    ELSE (cells[i] * Pow(c, i - 1, FrModulus) + SequenceRlc(cells, c, i + 1))
             % FrModulus

\* the pairs << field element, byte cells >> of a decomposed G1 / G2 point
G1Sequences(g) == { << g.ec_point.x, g.x_cells >>, << g.ec_point.y, g.y_cells >> }

G2Sequences(g) ==
    { << g.ec_point.x_c0, g.x_c0_cells >>, << g.ec_point.x_c1, g.x_c1_cells >>,
      << g.ec_point.y_c0, g.y_c0_cells >>, << g.ec_point.y_c1, g.y_c1_cells >> }

\* the table values of the run are the RLCs of these byte sequences, and
\* the sequences are those of every operand
RlcsAreOfSequences ==
    LET d == probe.d
        c == probe.c
        row == probe.row
    IN  CASE probe.op_kind = "add" ->
                /\ row.arg1_rlc = SequenceRlc(d.point_p.x_cells, c, 1)
                /\ row.arg2_rlc = SequenceRlc(d.point_p.y_cells, c, 1)
                /\ row.arg3_rlc = SequenceRlc(d.point_q.x_cells, c, 1)
                /\ row.arg4_rlc = SequenceRlc(d.point_q.y_cells, c, 1)
                /\ row.output1_rlc = SequenceRlc(d.point_r.x_cells, c, 1)
                /\ row.output2_rlc = SequenceRlc(d.point_r.y_cells, c, 1)
          [] probe.op_kind = "mul" ->
                /\ row.arg1_rlc = SequenceRlc(d.point_p.x_cells, c, 1)
                /\ row.arg2_rlc = SequenceRlc(d.point_p.y_cells, c, 1)
                /\ row.output1_rlc = SequenceRlc(d.point_r.x_cells, c, 1)
                /\ row.output2_rlc = SequenceRlc(d.point_r.y_cells, c, 1)
          [] OTHER ->
                row.input_rlc =
                    SequenceRlc(d.g2.y_c0_cells \o d.g2.y_c1_cells
                                    \o d.g2.x_c0_cells \o d.g2.x_c1_cells
                                    \o d.g1.y_cells \o d.g1.x_cells, c, 1)

SequencesInRlc ==
    CASE probe.op_kind = "add" ->
            G1Sequences(probe.d.point_p) \cup G1Sequences(probe.d.point_q)
                \cup G1Sequences(probe.d.point_r)
      [] probe.op_kind = "mul" ->
            G1Sequences(probe.d.point_p) \cup G1Sequences(probe.d.point_r)
      [] OTHER -> G1Sequences(probe.d.g1) \cup G2Sequences(probe.d.g2)

\* C22: every byte sequence that enters a phase-2 RLC (the coordinates of
\* the EcAdd and EcMul operands, the six components of a pairing pair) is
\* bound to its field element by assert_crt_repr: whenever the phase-1
\* constraints hold, each of these sequences satisfies the limb equalities
\* of its element.  The EcMul scalar alone reaches the table without bytes,
\* as its native value.
C22_RlcBytesBoundInPhase1 ==
    BindDone =>
        /\ RlcsAreOfSequences
        /\ probe.accepted =>
              \A b \in SequencesInRlc : AssertCrtRepr(b[1], b[2])
        /\ (probe.op_kind = "mul") =>
              /\ probe.row.arg3_rlc = probe.op.s % FrModulus
              /\ probe.row.arg4_rlc = 0 /\ probe.row.input_rlc = 0

\* an EcMul run whose bytes of R.y are not those of R.y: phase 1 refuses it
C22_Witness ==
    /\ BindDone
    /\ probe.op_kind = "mul"
    /\ probe.op.s = 5
    /\ ~AssertCrtRepr(probe.d.point_r.ec_point.y, probe.d.point_r.y_cells)
    /\ AssertCrtRepr(probe.d.point_p.ec_point.x, probe.d.point_p.x_cells)
    /\ ~probe.accepted
    /\ probe.row.arg3_rlc = 5

-----------------------------------------------------------------------------
(* Skipped operations *)

\* the supplied lists hold a skipped operation
SomeSkipped ==
    \/ \E i \in 1 .. Len(add_ops) : add_ops[i].skip
    \/ \E i \in 1 .. Len(mul_ops) : mul_ops[i].skip
    \/ \E i \in 1 .. Len(pairing_ops) : pairing_ops[i].skip

\* a list that is over its maximum only because of its skipped operations
OverBySkippedOnly(ops, max) == Len(ops) > max /\ Len(NonSkipped(ops)) <= max

\* C23: a skipped operation takes no slot: at every point of assign the
\* decompositions made so far, and the rows written so far, are those of the
\* non-skipped operations in input order followed by the padding operation
\* (an EcPairing row carries the success bit of the decomposition of its slot),
\* never more than the maximum of the kind; the capacity check counts the
\* skipped operations too, so a run goes past the check only when every
\* unfiltered list fits, and a list that is over its maximum by its skipped
\* operations alone ends in the capacity error with nothing assigned.
C23_SkippedOpsTakeNoSlotButCount ==
    /\ Len(ec_adds_decomposed) <= max_add_ops
    /\ Len(ec_muls_decomposed) <= max_mul_ops
    /\ Len(ec_pairings_decomposed) <= max_pairing_ops
    /\ \A i \in 1 .. Len(ec_adds_decomposed) :
          ec_adds_decomposed[i] =
             EcAddDecomposed(SlotOp(add_ops, EcAddOpDefault, i))
    /\ \A i \in 1 .. Len(ec_muls_decomposed) :
          ec_muls_decomposed[i] =
             EcMulDecomposed(SlotOp(mul_ops, EcMulOpDefault, i))
    /\ \A i \in 1 .. Len(ec_pairings_decomposed) :
          ec_pairings_decomposed[i] =
             EcPairingDecomposed(SlotOp(pairing_ops, EcPairingOpDefault, i),
                                 sentinel_success)
    /\ \A i \in 1 .. max_add_ops :
          (i - 1) \in DOMAIN table =>
             table[i - 1] =
                ExpectedEcAddRow(SlotOp(add_ops, EcAddOpDefault, i), challenge)
    /\ \A i \in 1 .. max_mul_ops :
          (MulBase + i - 1) \in DOMAIN table =>
             table[MulBase + i - 1] =
                ExpectedEcMulRow(SlotOp(mul_ops, EcMulOpDefault, i), challenge)
    /\ \A i \in 1 .. max_pairing_ops :
          (PairingBase + i - 1) \in DOMAIN table =>
             /\ table[PairingBase + i - 1].op_type = Bn128Pairing
             /\ table[PairingBase + i - 1].output1_rlc =
                   ec_pairings_decomposed[i].success
    /\ (pc \notin {"start", "err"}) =>
          /\ Len(add_ops) <= max_add_ops
          /\ Len(mul_ops) <= max_mul_ops
          /\ Len(pairing_ops) <= max_pairing_ops
    /\ (pc # "start"
          /\ \/ OverBySkippedOnly(add_ops, max_add_ops)
             \/ OverBySkippedOnly(mul_ops, max_mul_ops)
             \/ OverBySkippedOnly(pairing_ops, max_pairing_ops)) =>
          (pc = "err" /\ NothingAssigned)

\* a finished run whose EcAdd list is a skipped operation followed by a kept
\* one: the kept one is in row 0, the padding in row 1, and the constraints
\* hold
C23_Witness ==
    /\ pc = "done" /\ satisfied
    /\ max_add_ops = 2 /\ Len(add_ops) = 2
    /\ add_ops[1].skip /\ ~add_ops[2].skip
    /\ Len(ec_adds_decomposed) = 2
    /\ ec_adds_decomposed[1] = EcAddDecomposed(add_ops[2])
    /\ ec_adds_decomposed[2] = EcAddDecomposed(EcAddOpDefault)
    /\ table[0] = ExpectedEcAddRow(add_ops[2], challenge)
    /\ table[1] = ZeroRow(Bn128Add)

\* the capacity error of a list whose non-skipped operations would have fitted
C23_ErrorBySkippedOnly ==
    /\ pc = "err"
    /\ OverBySkippedOnly(add_ops, max_add_ops)
    /\ Len(mul_ops) <= max_mul_ops /\ Len(pairing_ops) <= max_pairing_ops
    /\ SomeSkipped

=============================================================================
